---- MODULE Spec2Model ----
(***************************************************************************)
(* A model of the AI agent REST gateway: six task endpoints, each a        *)
(* pipeline  require_api_key -> validate_request_data -> handler body      *)
(* (blob download, blob properties, text extraction, length limit, LLM     *)
(* call, response).  One request is served at a time; the blob store is    *)
(* shared with other parties that may delete or overwrite blobs between    *)
(* the steps of a request.                                                 *)
(***************************************************************************)
EXTENDS Integers, Sequences, FiniteSets, TLC

VARIABLES
    apiKeys,      \* config.API_KEYS: endpoint path -> configured key
    debug,        \* config.DEBUG
    store,        \* the blob store: <<container, name>> -> blob version or Absent
    changes,      \* number of changes other parties made to the store
    req,          \* the request being served (flask.request)
    pc,           \* where the request is in its decorators / handler body
    file_content, \* handler local: the downloaded bytes
    file_properties, \* handler local: the dict from get_blob_properties
    text_content, \* handler local: the extracted (and length-limited) text
    was_truncated,\* handler local
    trace,        \* the stages this request went through, in order
    exception,    \* the exception that ended the request, if one did
    llm_reply,    \* what the LLM provider answered this request
    resp,         \* the HTTP response, once the request is done
    lib_call,     \* a function of the services called on its own: its name and arguments
    lib_result,   \* what that call returned
    workers,      \* the requests served concurrently: request, position, response
    frames        \* the locals of the handler calls that serve them

vars == <<apiKeys, debug, store, changes, req, pc, file_content, file_properties,
          text_content, was_truncated, trace, exception, llm_reply, resp,
          lib_call, lib_result, workers, frames>>

-----------------------------------------------------------------------------
(* Bounds of the model *)

\* how many times the text "Bearer " may be repeated at the front of a header
MaxBearer == 1
\* how many times other parties change the blob store
MaxStoreChanges == 1

-----------------------------------------------------------------------------
(* Python strings *)

\* Python's None, and an absent header
None == "<None>"

\* `if s:` for an Optional[str]
Truthy(s) == s # None /\ s # ""

\* s.startswith(p)
StartsWith(s, p) == Len(s) >= Len(p) /\ SubSeq(s, 1, Len(p)) = p

\* s.endswith(p)
EndsWith(s, p) == Len(s) >= Len(p) /\ SubSeq(s, Len(s) - Len(p) + 1, Len(s)) = p

\* s[i:] with i a 0-based Python index
SliceFrom(s, i) == SubSeq(s, i + 1, Len(s))

\* `sub in s`
Contains(s, sub) ==
    \E i \in 1..(Len(s) - Len(sub) + 1) : SubSeq(s, i, i + Len(sub) - 1) = sub

\* the 1-based position of the first c in s at or after position i, 0 if none
RECURSIVE FindFrom(_, _, _)
FindFrom(s, c, i) ==
    IF i > Len(s) THEN 0
    ELSE IF SubSeq(s, i, i) = c THEN i
    ELSE FindFrom(s, c, i + 1)

\* s.find(c) + 1 for a one-character c: the 1-based position of the first c, 0 if none
FindChar(s, c) == FindFrom(s, c, 1)

\* the 1-based position of the last c in s at or before position i, 0 if none
RECURSIVE FindBack(_, _, _)
FindBack(s, c, i) ==
    IF i < 1 THEN 0
    ELSE IF SubSeq(s, i, i) = c THEN i
    ELSE FindBack(s, c, i - 1)

\* s.rfind(c) + 1
FindLastChar(s, c) == FindBack(s, c, Len(s))

\* s.split(c, 1): one or two parts
SplitOnce(s, c) ==
    LET i == FindChar(s, c) IN
    IF i = 0 THEN <<s>> ELSE <<SubSeq(s, 1, i - 1), SubSeq(s, i + 1, Len(s))>>

\* s.split(c)[-1]
LastPart(s, c) == SubSeq(s, FindLastChar(s, c) + 1, Len(s))

\* s.lstrip(c) for a one-character c
RECURSIVE LStrip(_, _)
LStrip(s, c) ==
    IF Len(s) > 0 /\ SubSeq(s, 1, 1) = c THEN LStrip(SubSeq(s, 2, Len(s)), c) ELSE s

-----------------------------------------------------------------------------
(* config.py *)

Endpoints ==
    <<"/summarize", "/sentiment", "/extract-keywords", "/translate",
      "/structure-data", "/detect-topics">>

EndpointSet == {Endpoints[i] : i \in 1..Len(Endpoints)}

\* the defaults of API_KEYS
DefaultKeys ==
    [e \in EndpointSet |->
        CASE e = "/summarize" -> "summarize-key-123"
          [] e = "/sentiment" -> "sentiment-key-123"
          [] e = "/extract-keywords" -> "keywords-key-123"
          [] e = "/translate" -> "translate-key-123"
          [] e = "/structure-data" -> "structure-key-123"
          [] e = "/detect-topics" -> "topics-key-123"]

\* API_KEYS as the environment can make it: every variable unset (the defaults),
\* or the key variables set to the empty string
KeyConfigs == {DefaultKeys, [e \in EndpointSet |-> ""]}

\* the endpoint after e in Endpoints (cyclically): "a different endpoint"
OtherEndpoint(e) ==
    LET i == CHOOSE j \in 1..Len(Endpoints) : Endpoints[j] = e
    IN  Endpoints[(i % Len(Endpoints)) + 1]

-----------------------------------------------------------------------------
(* Responses and exceptions *)

NoData == <<>>

\* an HTTP response: code is the HTTP status, status/error/message/data the
\* fields of the JSON body (None when the body has no such field)
Response(code, status, error, message, data) ==
    [code |-> code, status |-> status, error |-> error, message |-> message,
     data |-> data]

\* no response yet
NoResponse == Response(0, None, None, None, NoData)

\* jsonify({"error": ..., "message": ...}), code: the decorators' own body shape
PlainError(error, message, code) == Response(code, None, error, message, NoData)

\* a raised Python exception: its class and str(e)
Exc(type, msg) == [type |-> type, msg |-> msg]

NoExc == Exc(None, "")

\* isinstance(e, cls) for the classes the handlers catch
IsInstance(e, cls) ==
    \/ e.type = cls
    \/ cls = "ValueError" /\ e.type \in {"UnicodeDecodeError", "JSONDecodeError"}
    \/ cls = "Exception" /\ e.type # None

\* utils/helpers.py create_error_response
create_error_response(error, message, status_code) ==
    Response(status_code, "error", error, message, NoData)

\* utils/helpers.py create_success_response, as the body of a 200 response
create_success_response(data, message) ==
    Response(200, "success", None, message, <<data>>)

-----------------------------------------------------------------------------
(* The request *)

\* a parsed JSON value: t its type, and the payload of that type
Json(t, s, n, l, m) == [t |-> t, s |-> s, n |-> n, l |-> l, m |-> m]

EmptyMap == [k \in {} |-> ""]

JMalformed == Json("malformed", "", 0, <<>>, EmptyMap)
JNull == Json("null", "", 0, <<>>, EmptyMap)
JNum(n) == Json("num", "", n, <<>>, EmptyMap)
JStr(s) == Json("str", s, 0, <<>>, EmptyMap)
JList(l) == Json("list", "", 0, l, EmptyMap)
JObj(m) == Json("obj", "", 0, <<>>, m)

\* bool(data) of a parsed JSON value
JsonTruthy(j) ==
    CASE j.t = "null" -> FALSE
      [] j.t = "num"  -> j.n # 0
      [] j.t = "str"  -> j.s # ""
      [] j.t = "list" -> j.l # <<>>
      [] j.t = "obj"  -> DOMAIN j.m # {}
      [] OTHER -> FALSE

\* `field in data` raises TypeError when data is a number
InRaises(j) == j.t = "num"

\* `field in data` of a parsed JSON value
JsonIn(field, j) ==
    CASE j.t = "str"  -> Contains(j.s, field)
      [] j.t = "list" -> \E i \in 1..Len(j.l) : j.l[i] = field
      [] j.t = "obj"  -> field \in DOMAIN j.m
      [] OTHER -> FALSE

\* data.get(k) of a dict
DictGet(m, k) == IF k \in DOMAIN m THEN m[k] ELSE None

\* ', '.join(seq)
RECURSIVE Join(_)
Join(seq) ==
    IF seq = <<>> THEN ""
    ELSE IF Len(seq) = 1 THEN seq[1]
    ELSE seq[1] \o ", " \o Join(Tail(seq))

-----------------------------------------------------------------------------
(* middleware/auth.py require_api_key *)

BearerPrefix == "Bearer "

\* the 7 of api_key[7:]
BearerLen == 7

\* request.headers.get('X-API-Key') or request.headers.get('Authorization')
HeaderKey(r) == IF Truthy(r.xkey) THEN r.xkey ELSE r.auth

\* if api_key and api_key.startswith('Bearer '): api_key = api_key[7:]
StripBearer(k) ==
    IF Truthy(k) /\ StartsWith(k, BearerPrefix) THEN SliceFrom(k, BearerLen) ELSE k

\* the key the decorator compares
ApiKey(r) == StripBearer(HeaderKey(r))

Resp401 ==
    PlainError("API key required",
               "Please provide API key in X-API-Key header or Authorization header",
               401)

RespNotConfigured ==
    PlainError("Endpoint not configured",
               "This endpoint is not properly configured", 500)

Resp403 ==
    PlainError("Invalid API key",
               "The provided API key is not valid for this endpoint", 403)

\* the decorator as it would be if the empty check came before the prefix was
\* removed
require_api_key_unstripped(endpoint_path, r) ==
    LET raw == HeaderKey(r)
        api_key == StripBearer(raw)
        expected_key == apiKeys[endpoint_path]
    IN  IF ~Truthy(raw) THEN Resp401
        ELSE IF ~Truthy(expected_key) THEN RespNotConfigured
        ELSE IF api_key # expected_key THEN Resp403
        ELSE NoResponse

\* the decorator as it would be if it accepted the key of any endpoint
require_api_key_anykey(endpoint_path, r) ==
    LET api_key == ApiKey(r)
        expected_key == apiKeys[endpoint_path]
    IN  IF ~Truthy(api_key) THEN Resp401
        ELSE IF ~Truthy(expected_key) THEN RespNotConfigured
        ELSE IF \A e \in DOMAIN apiKeys : api_key # apiKeys[e] THEN Resp403
        ELSE NoResponse

\* decorated_function of require_api_key(endpoint_path): the response it returns
\* itself, or NoResponse when it calls f
require_api_key(endpoint_path, r) ==
    LET api_key == ApiKey(r)
        expected_key == apiKeys[endpoint_path]
    IN  IF ~Truthy(api_key) THEN Resp401
        ELSE IF ~Truthy(expected_key) THEN RespNotConfigured
        ELSE IF api_key # expected_key THEN Resp403
        ELSE NoResponse

-----------------------------------------------------------------------------
(* middleware/auth.py validate_request_data *)

\* the required_fields each route passes
RequiredFields(e) ==
    IF e = "/translate" THEN <<"file_path", "target_language">> ELSE <<"file_path">>

\* request.is_json
IsJson(r) == r.ctype = "json"

RespInvalidRequest ==
    PlainError("Invalid request", "Request must contain JSON data or form data", 400)

\* request.get_json() if request.is_json else request.form, as a Json value
\* (the form is a dict of its fields)
RequestData(r) == IF IsJson(r) THEN r.json ELSE JObj(r.form)

\* [field for field in required_fields if field not in data]
MissingFields(required_fields, data) ==
    LET Missing(f) == ~JsonIn(f, data) IN SelectSeq(required_fields, Missing)

RespMissing(missing_fields) ==
    PlainError("Missing required fields",
               "The following fields are required: " \o Join(missing_fields), 400)

\* decorated_function of validate_request_data(required_fields): what it does
\* before calling f.  kind "return": it returns resp; "raise": exc escapes it;
\* "call": it calls f
Outcome(kind, r, e) == [kind |-> kind, resp |-> r, exc |-> e]

validate_request_data(required_fields, r) ==
    LET data == RequestData(r) IN
    IF required_fields = <<>> THEN Outcome("call", NoResponse, NoExc)
    ELSE IF IsJson(r) /\ r.json.t = "malformed"
    THEN Outcome("raise", NoResponse,
                 Exc("BadRequest", "400 Bad Request: Failed to decode JSON object"))
    ELSE IF ~JsonTruthy(data) THEN Outcome("return", RespInvalidRequest, NoExc)
    ELSE IF InRaises(data)
    THEN Outcome("raise", NoResponse,
                 Exc("TypeError", "argument of type 'int' is not iterable"))
    ELSE IF MissingFields(required_fields, data) # <<>>
    THEN Outcome("return", RespMissing(MissingFields(required_fields, data)), NoExc)
    ELSE Outcome("call", NoResponse, NoExc)

-----------------------------------------------------------------------------
(* app.py: what the application does with an exception no handler caught *)

\* the body of the 500 error handler
RespInternalServerError ==
    Response(500, "error", "internal_server_error",
             "An internal server error occurred", NoData)

\* an exception that escaped the view function: an HTTP exception becomes its
\* own response; any other one is re-raised to the debugger page in debug mode
\* and goes to the 500 error handler otherwise
UncaughtException(e) ==
    IF e.type = "BadRequest" THEN Response(400, None, None, e.msg, NoData)
    ELSE IF debug THEN Response(500, None, None, "Traceback: " \o e.type \o ": " \o e.msg, NoData)
    ELSE RespInternalServerError

-----------------------------------------------------------------------------
(* utils/helpers.py validate_file_path *)

validate_file_path(file_path) ==
    IF ~Truthy(file_path) THEN FALSE
    ELSE IF StartsWith(file_path, "http")
    THEN Contains(file_path, "/") /\ Contains(LastPart(file_path, "/"), ".")
    ELSE Contains(file_path, "/") /\ Len(SplitOnce(file_path, "/")) >= 2

-----------------------------------------------------------------------------
(* services/azure_storage.py: from a blob reference to a blob client *)

\* _is_sas_url
is_sas_url(url) == StartsWith(url, "https://") /\ Contains(url, "?")

\* urlparse(url).path of a URL that starts with https://: from the first "/"
\* after the host up to the query string or the fragment
UrlPath(url) ==
    LET rest == SliceFrom(url, Len("https://"))
        q == FindChar(rest, "?")
        h == FindChar(rest, "#")
        end == IF q = 0 THEN h ELSE IF h = 0 THEN q ELSE IF q < h THEN q ELSE h
        noQuery == IF end = 0 THEN rest ELSE SubSeq(rest, 1, end - 1)
        i == FindChar(noQuery, "/")
    IN  IF i = 0 THEN "" ELSE SubSeq(noQuery, i, Len(noQuery))

\* a blob client, or the exception raised instead of making one
Client(container, blob) == [ok |-> TRUE, container |-> container, blob |-> blob, exc |-> NoExc]
NoClient(e) == [ok |-> FALSE, container |-> "", blob |-> "", exc |-> e]

\* get_blob_client as it would be if it took any names
get_blob_client_unchecked(container_name, blob_name) == Client(container_name, blob_name)

\* BlobServiceClient.get_blob_client(container=, blob=): the SDK refuses an
\* empty container or blob name with a ValueError
get_blob_client(container_name, blob_name) ==
    IF container_name = "" \/ blob_name = ""
    THEN NoClient(Exc("ValueError", "Please specify a container name and blob name."))
    ELSE Client(container_name, blob_name)

\* BlobClient.from_blob_url(url) for a URL of the storage service: the SDK takes
\* the first path segment as the container and the rest as the blob name
from_blob_url(url) ==
    LET path_blob == SplitOnce(LStrip(UrlPath(url), "/"), "/")
        invalid == Exc("ValueError",
                       "Invalid URL. Provide a blob_url with a valid blob and container name.")
    IN  IF Len(path_blob) <= 1 THEN NoClient(invalid)
        ELSE IF path_blob[1] = "" \/ path_blob[2] = "" THEN NoClient(invalid)
        ELSE Client(path_blob[1], path_blob[2])

\* the if / elif / else download_blob_content starts with
BlobClientFor(blob_url_or_path) ==
    IF is_sas_url(blob_url_or_path) THEN from_blob_url(blob_url_or_path)
    ELSE IF StartsWith(blob_url_or_path, "https://")
    THEN LET path_parts == SplitOnce(LStrip(UrlPath(blob_url_or_path), "/"), "/")
         IN  IF Len(path_parts) # 2
             THEN NoClient(Exc("ValueError",
                               "Invalid blob URL format: missing container/blob_name"))
             ELSE get_blob_client(path_parts[1], path_parts[2])
    ELSE LET parts == SplitOnce(blob_url_or_path, "/")
         IN  IF Len(parts) # 2
             THEN NoClient(Exc("ValueError",
                               "Invalid blob path format. Expected container/blob_name"))
             ELSE get_blob_client(parts[1], parts[2])

\* the if / elif / else get_blob_properties starts with
PropertiesClientFor(blob_url_or_path) ==
    IF is_sas_url(blob_url_or_path) THEN from_blob_url(blob_url_or_path)
    ELSE IF StartsWith(blob_url_or_path, "https://")
    THEN LET path_parts == SplitOnce(LStrip(UrlPath(blob_url_or_path), "/"), "/")
         IN  IF Len(path_parts) # 2
             THEN NoClient(Exc("ValueError",
                               "Invalid blob URL format: missing container/blob_name"))
             ELSE get_blob_client(path_parts[1], path_parts[2])
    ELSE LET parts == SplitOnce(blob_url_or_path, "/")
         IN  IF Len(parts) # 2
             THEN NoClient(Exc("ValueError",
                               "Invalid blob path format. Expected container/blob_name"))
             ELSE get_blob_client(parts[1], parts[2])

-----------------------------------------------------------------------------
(* The blob store *)

\* the blob other parties may create, overwrite and delete
StoreKeys == {<<"demo", "docs/report.pdf">>}

\* what PyPDF2 makes of a blob's bytes: kind "corrupt" (PdfReadError), "encrypted"
\* or "plain"; pages holds what extract_text() returns for each page
Pdf(kind, pages) == [kind |-> kind, pages |-> pages]

NotAPdf == Pdf("corrupt", <<>>)

\* the bytes of a blob: the byte values, and the PDF document they encode
Content(bytes, pdf) == [bytes |-> bytes, pdf |-> pdf]

\* a version of a blob: ver names it, content_type is its content settings
Version(ver, content_type, content) ==
    [exists |-> TRUE, ver |-> ver, content_type |-> content_type, content |-> content]

\* no blob under a key
Absent == [exists |-> FALSE, ver |-> "absent", content_type |-> None,
           content |-> Content(<<>>, NotAPdf)]

\* "%PDF"
PdfMagic == <<37, 80, 68, 70>>

\* "Great!" / "ok" / " \n" as code points
TxtGreat == <<71, 114, 101, 97, 116, 33>>
TxtOk == <<111, 107>>
TxtBlank == <<32, 10>>

\* the versions other parties put into the store
Versions ==
    { Version("review", "text/plain", Content(TxtGreat, NotAPdf)),
      Version("utf16", "text/plain; charset=utf-16",
              Content(<<255, 254, 111, 0, 107, 0>>, NotAPdf)),
      Version("empty", "text/plain", Content(<<>>, NotAPdf)),
      Version("report", "application/pdf",
              Content(PdfMagic, Pdf("plain", <<TxtGreat, TxtBlank, TxtOk>>))),
      Version("locked", "application/pdf",
              Content(PdfMagic, Pdf("encrypted", <<TxtGreat>>))),
      Version("scanned", None,
              Content(PdfMagic, Pdf("plain", <<TxtBlank, <<>> >>))),
      Version("broken", "Application/PDF", Content(PdfMagic \o <<255>>, NotAPdf)) }

\* the request to the service fails for a name the service does not accept:
\* a container name holds lower-case letters, digits and "-" only
ValidContainerName(c) == ~Contains(c, ":") /\ ~Contains(c, ".") /\ ~Contains(c, "/")

\* the blob a client names, as the store has it now
Lookup(client) ==
    IF <<client.container, client.blob>> \in StoreKeys
    THEN store[<<client.container, client.blob>>]
    ELSE Absent

-----------------------------------------------------------------------------
(* Character codecs.  A decoded text is a sequence of code points. *)

Decoded(cp) == [ok |-> TRUE, cp |-> cp]
Undecodable == [ok |-> FALSE, cp |-> <<>>]

\* d with code point c put in front
Cons(c, d) == IF d.ok THEN Decoded(<<c>> \o d.cp) ELSE Undecodable

\* a UTF-8 continuation byte
IsCont(b) == b >= 128 /\ b <= 191

\* bytes.decode('utf-8')
RECURSIVE DecodeUtf8(_)
DecodeUtf8(bs) ==
    IF bs = <<>> THEN Decoded(<<>>)
    ELSE LET b == bs[1]
             n == Len(bs)
         IN  IF b < 128 THEN Cons(b, DecodeUtf8(Tail(bs)))
             ELSE IF b >= 194 /\ b <= 223 /\ n >= 2 /\ IsCont(bs[2])
             THEN Cons((b - 192) * 64 + (bs[2] - 128), DecodeUtf8(SubSeq(bs, 3, n)))
             ELSE IF /\ b >= 224 /\ b <= 239 /\ n >= 3 /\ IsCont(bs[2]) /\ IsCont(bs[3])
                     /\ (b = 224 => bs[2] >= 160) /\ (b = 237 => bs[2] <= 159)
             THEN Cons((b - 224) * 4096 + (bs[2] - 128) * 64 + (bs[3] - 128),
                       DecodeUtf8(SubSeq(bs, 4, n)))
             ELSE IF /\ b >= 240 /\ b <= 244 /\ n >= 4
                     /\ IsCont(bs[2]) /\ IsCont(bs[3]) /\ IsCont(bs[4])
                     /\ (b = 240 => bs[2] >= 144) /\ (b = 244 => bs[2] <= 143)
             THEN Cons((b - 240) * 262144 + (bs[2] - 128) * 4096
                         + (bs[3] - 128) * 64 + (bs[4] - 128),
                       DecodeUtf8(SubSeq(bs, 5, n)))
             ELSE Undecodable

\* the 16-bit unit of two bytes
Unit(b1, b2, bigEndian) == IF bigEndian THEN b1 * 256 + b2 ELSE b2 * 256 + b1

RECURSIVE DecodeUnits(_, _)
DecodeUnits(bs, bigEndian) ==
    IF bs = <<>> THEN Decoded(<<>>)
    ELSE IF Len(bs) = 1 THEN Undecodable
    ELSE LET u == Unit(bs[1], bs[2], bigEndian)
             n == Len(bs)
         IN  IF u < 55296 \/ u > 57343
             THEN Cons(u, DecodeUnits(SubSeq(bs, 3, n), bigEndian))
             ELSE IF u <= 56319 /\ n >= 4
                     /\ Unit(bs[3], bs[4], bigEndian) >= 56320
                     /\ Unit(bs[3], bs[4], bigEndian) <= 57343
             THEN Cons(65536 + (u - 55296) * 1024
                         + (Unit(bs[3], bs[4], bigEndian) - 56320),
                       DecodeUnits(SubSeq(bs, 5, n), bigEndian))
             ELSE Undecodable

\* bytes.decode('utf-16'): a byte order mark chooses the byte order and is
\* dropped; without one the order is little-endian
DecodeUtf16(bs) ==
    IF Len(bs) >= 2 /\ bs[1] = 255 /\ bs[2] = 254
    THEN DecodeUnits(SubSeq(bs, 3, Len(bs)), FALSE)
    ELSE IF Len(bs) >= 2 /\ bs[1] = 254 /\ bs[2] = 255
    THEN DecodeUnits(SubSeq(bs, 3, Len(bs)), TRUE)
    ELSE DecodeUnits(bs, FALSE)

\* bytes.decode('latin-1'): every byte is the code point of its value
DecodeLatin1(bs) == Decoded(bs)

\* the code points of the bytes 0x80..0x9F in Windows-1252; 0: not assigned
Cp1252High ==
    <<8364, 0, 8218, 402, 8222, 8230, 8224, 8225, 710, 8240, 352, 8249, 338, 0, 381, 0,
      0, 8216, 8217, 8220, 8221, 8226, 8211, 8212, 732, 8482, 353, 8250, 339, 0, 382, 376>>

\* bytes.decode('cp1252')
DecodeCp1252(bs) ==
    IF \E i \in 1..Len(bs) : bs[i] >= 128 /\ bs[i] <= 159 /\ Cp1252High[bs[i] - 127] = 0
    THEN Undecodable
    ELSE Decoded([i \in 1..Len(bs) |->
                    IF bs[i] >= 128 /\ bs[i] <= 159 THEN Cp1252High[bs[i] - 127]
                    ELSE bs[i]])

\* content.decode(encoding)
Decode(bs, encoding) ==
    CASE encoding = "utf-8" -> DecodeUtf8(bs)
      [] encoding = "utf-16" -> DecodeUtf16(bs)
      [] encoding = "latin-1" -> DecodeLatin1(bs)
      [] encoding = "cp1252" -> DecodeCp1252(bs)

\* a code point str.strip() removes
IsSpace(c) ==
    \/ c >= 9 /\ c <= 13
    \/ c >= 28 /\ c <= 32
    \/ c \in {133, 160, 5760, 8232, 8233, 8239, 8287, 12288}
    \/ c >= 8192 /\ c <= 8202

\* `not text.strip()`
IsBlank(text) == \A i \in 1..Len(text) : IsSpace(text[i])

-----------------------------------------------------------------------------
(* Characters of str values *)

UpperCase == "ABCDEFGHIJKLMNOPQRSTUVWXYZ"
LowerCase == "abcdefghijklmnopqrstuvwxyz"
Digits == "0123456789"

\* the lower-case letter of each upper-case letter
LowerOf ==
    [c \in {SubSeq(UpperCase, i, i) : i \in 1..Len(UpperCase)} |->
        SubSeq(LowerCase, FindChar(UpperCase, c), FindChar(UpperCase, c))]

\* s.lower()
RECURSIVE Lower(_)
Lower(s) ==
    IF s = "" THEN ""
    ELSE LET c == SubSeq(s, 1, 1)
         IN  (IF c \in DOMAIN LowerOf THEN LowerOf[c] ELSE c)
             \o Lower(SubSeq(s, 2, Len(s)))

\* str(n) of a natural number
RECURSIVE ToStr(_)
ToStr(n) ==
    IF n < 10 THEN SubSeq(Digits, n + 1, n + 1)
    ELSE ToStr(n \div 10) \o SubSeq(Digits, (n % 10) + 1, (n % 10) + 1)

-----------------------------------------------------------------------------
(* services/file_processor.py *)

\* FileProcessor._determine_file_type
\* _determine_file_type as it would be if the filename were looked at before the
\* content type
determine_file_type_name_first(content_type, filename, content) ==
    LET type_lower == IF Truthy(content_type) THEN Lower(content_type) ELSE ""
        filename_lower == IF Truthy(filename) THEN Lower(filename) ELSE ""
    IN  IF Truthy(filename) /\ EndsWith(filename_lower, ".pdf") THEN "pdf"
        ELSE IF Truthy(filename)
                /\ \E ext \in {".txt", ".md", ".csv", ".json", ".xml"} :
                      EndsWith(filename_lower, ext)
        THEN "text"
        ELSE IF Truthy(content_type) /\ Contains(type_lower, "pdf") THEN "pdf"
        ELSE IF Truthy(content_type) /\ Contains(type_lower, "text") THEN "text"
        ELSE IF Len(content.bytes) >= Len(PdfMagic)
                /\ SubSeq(content.bytes, 1, Len(PdfMagic)) = PdfMagic
        THEN "pdf"
        ELSE "text"

determine_file_type(content_type, filename, content) ==
    LET type_lower == IF Truthy(content_type) THEN Lower(content_type) ELSE ""
        filename_lower == IF Truthy(filename) THEN Lower(filename) ELSE ""
    IN  IF Truthy(content_type) /\ Contains(type_lower, "pdf") THEN "pdf"
        ELSE IF Truthy(content_type) /\ Contains(type_lower, "text") THEN "text"
        ELSE IF Truthy(filename) /\ EndsWith(filename_lower, ".pdf") THEN "pdf"
        ELSE IF Truthy(filename)
                /\ \E ext \in {".txt", ".md", ".csv", ".json", ".xml"} :
                      EndsWith(filename_lower, ext)
        THEN "text"
        ELSE IF Len(content.bytes) >= Len(PdfMagic)
                /\ SubSeq(content.bytes, 1, Len(PdfMagic)) = PdfMagic
        THEN "pdf"
        ELSE "text"

\* the result of an extraction: the text, or the exception raised
Extracted(text) == [ok |-> TRUE, text |-> text, exc |-> NoExc]
ExtractFails(e) == [ok |-> FALSE, text |-> <<>>, exc |-> e]

\* the join as it would be with a space for the newline
RECURSIVE JoinSpaces(_)
JoinSpaces(pages) ==
    IF pages = <<>> THEN <<>>
    ELSE IF Len(pages) = 1 THEN pages[1]
    ELSE pages[1] \o <<32>> \o JoinSpaces(Tail(pages))

\* '\n'.join(pages)
RECURSIVE JoinLines(_)
JoinLines(pages) ==
    IF pages = <<>> THEN <<>>
    ELSE IF Len(pages) = 1 THEN pages[1]
    ELSE pages[1] \o <<10>> \o JoinLines(Tail(pages))

\* the try body of FileProcessor._extract_from_pdf, before its except clauses
PdfTryBody(content) ==
    LET pdf == content.pdf
        NonBlank(page_text) == ~IsBlank(page_text)
        kept == SelectSeq(pdf.pages, NonBlank)
        total_pages == Len(pdf.pages)
        extracted_text == JoinLines(kept)
    IN  IF pdf.kind = "corrupt"
        THEN ExtractFails(Exc("PdfReadError", "EOF marker not found"))
        ELSE IF pdf.kind = "encrypted"
        THEN ExtractFails(Exc("ValueError", "PDF is encrypted and cannot be processed"))
        ELSE IF IsBlank(extracted_text)
        THEN ExtractFails(Exc("ValueError",
                "No extractable text found in PDF (" \o ToStr(total_pages) \o " pages). "
                \o "This PDF might be image-based, scanned, or have text extraction restrictions. "
                \o "Please try with a different PDF that contains selectable text."))
        ELSE Extracted(extracted_text)

\* how many times the try body calls page.extract_text(): the loop over the
\* pages comes after the reader is built and after the is_encrypted check
PagesRead(content) ==
    IF content.pdf.kind \in {"corrupt", "encrypted"} THEN 0 ELSE Len(content.pdf.pages)

\* _extract_from_pdf as it would be if its second except clause dropped the
\* text of the exception it caught
extract_from_pdf_bare(content) ==
    LET r == PdfTryBody(content) IN
    IF r.ok THEN r
    ELSE IF r.exc.type = "PdfReadError"
    THEN ExtractFails(Exc("ValueError", "Invalid or corrupted PDF file: " \o r.exc.msg))
    ELSE ExtractFails(Exc("ValueError", "Failed to extract text from PDF"))

\* FileProcessor._extract_from_pdf: both except clauses raise ValueError
extract_from_pdf(content) ==
    LET r == PdfTryBody(content) IN
    IF r.ok THEN r
    ELSE IF r.exc.type = "PdfReadError"
    THEN ExtractFails(Exc("ValueError", "Invalid or corrupted PDF file: " \o r.exc.msg))
    ELSE ExtractFails(Exc("ValueError", "Failed to extract text from PDF: " \o r.exc.msg))

\* the encodings as they would be with latin-1 before utf-16, with utf-16
\* before utf-8, and with cp1252 before latin-1
EncodingsLatinLast == <<"utf-8", "utf-16", "cp1252", "latin-1">>
EncodingsLatinFirst == <<"utf-8", "latin-1", "utf-16", "cp1252">>
EncodingsUtf16First == <<"utf-16", "utf-8", "latin-1", "cp1252">>

\* encodings of FileProcessor._extract_from_text
Encodings == <<"utf-8", "utf-16", "latin-1", "cp1252">>

\* the for loop over encodings from the i-th on: the first that decodes
RECURSIVE TryEncodings(_, _)
TryEncodings(bs, i) ==
    IF i > Len(Encodings) THEN Undecodable
    ELSE IF Decode(bs, Encodings[i]).ok THEN Decode(bs, Encodings[i])
    ELSE TryEncodings(bs, i + 1)

\* the encodings the for loop passes to decode, from the i-th on, in order
RECURSIVE Attempts(_, _)
Attempts(bs, i) ==
    IF i > Len(Encodings) THEN <<>>
    ELSE IF Decode(bs, Encodings[i]).ok THEN <<Encodings[i]>>
    ELSE <<Encodings[i]>> \o Attempts(bs, i + 1)

\* FileProcessor._extract_from_text: when the loop ends without a return, building
\* the UnicodeDecodeError from one argument raises TypeError, and the except
\* clause turns that into ValueError
extract_from_text(content) ==
    LET d == TryEncodings(content.bytes, 1) IN
    IF d.ok THEN Extracted(d.cp)
    ELSE ExtractFails(Exc("ValueError",
            "Failed to extract text: function takes exactly 5 arguments (1 given)"))

\* FileProcessor.extract_text_from_content
extract_text_from_content(content, content_type, filename) ==
    LET file_type == determine_file_type(content_type, filename, content) IN
    IF file_type = "pdf" THEN extract_from_pdf(content)
    ELSE IF file_type \in {"txt", "text"} THEN extract_from_text(content)
    ELSE IF ~extract_from_text(content).ok
            /\ extract_from_text(content).exc.type = "UnicodeDecodeError"
    THEN ExtractFails(Exc("ValueError", "Unsupported file type: " \o file_type))
    ELSE extract_from_text(content)

\* the default of max_length
DefaultMaxLength == 100000

\* the max_length /translate passes
TranslateMaxLength == 50000

\* validate_text_length as it would be with < in place of <=, and as it would
\* be if it marked the cut with "..."
validate_text_length_strict(text, max_length) ==
    IF Len(text) < max_length THEN <<text, FALSE>>
    ELSE <<SubSeq(text, 1, max_length), TRUE>>

validate_text_length_ellipsis(text, max_length) ==
    IF Len(text) <= max_length THEN <<text, FALSE>>
    ELSE <<SubSeq(text, 1, max_length) \o <<46, 46, 46>>, TRUE>>

\* FileProcessor.validate_text_length: <<processed_text, was_truncated>>
validate_text_length(text, max_length) ==
    IF Len(text) <= max_length THEN <<text, FALSE>>
    ELSE <<SubSeq(text, 1, max_length), TRUE>>

-----------------------------------------------------------------------------
(* The LLM provider and services/openai_service.py *)

\* what client.chat.completions.create does: it raises, or it returns a reply
\* whose message content is a string or None
Reply(raised, content) == [raised |-> raised, content |-> content]

ReplyEmpty == ""
ReplyText == "  The review is positive. \n"
ReplyCut == "{\"sentiment\": "
ReplyList == "[1, 2]"
ReplyEmptyObject == "{}"
ReplySentiment ==
    "{\"sentiment\": \"positive\", \"confidence\": 0.9, \"explanation\": \"praise\"}"
ReplyKeywords == "{\"keywords\": [\"product\", \"quality\"]}"
ReplyKeywordsNumber == "{\"keywords\": 5}"
ReplyTopics ==
    "{\"topics\": [{\"name\": \"quality\", \"description\": \"build\", \"confidence\": 0.8}]}"
\* nine topics, each with a confidence of 1.5
ReplyTopicsNine ==
    LET topic == "{\"name\": \"t\", \"description\": \"d\", \"confidence\": 1.5}"
        more == ", " \o topic
    IN  "{\"topics\": [" \o topic \o more \o more \o more \o more \o more \o more
            \o more \o more \o "]}"

Replies ==
    {Reply(TRUE, None), Reply(FALSE, None)}
    \cup {Reply(FALSE, c) : c \in {ReplyEmpty, ReplyText, ReplyCut, ReplyList, ReplyEmptyObject,
                                   ReplySentiment, ReplyKeywords, ReplyKeywordsNumber,
                                   ReplyTopics, ReplyTopicsNine}}

\* json.loads of the reply texts above; numbers are written in tenths
Loaded(value) == [ok |-> TRUE, value |-> value]
NotJson == [ok |-> FALSE, value |-> JNull]

json_loads(s) ==
    CASE s = ReplyList -> Loaded(JList(<<"1", "2">>))
      [] s = ReplyEmptyObject -> Loaded(JObj(EmptyMap))
      [] s = ReplySentiment ->
            Loaded(JObj([sentiment |-> JStr("positive"), confidence |-> JNum(9),
                         explanation |-> JStr("praise")]))
      [] s = ReplyKeywords -> Loaded(JObj([keywords |-> JList(<<"product", "quality">>)]))
      [] s = ReplyKeywordsNumber -> Loaded(JObj([keywords |-> JNum(5)]))
      [] s = ReplyTopics ->
            Loaded(JObj([topics |-> JList(<<
                [name |-> "quality", description |-> "build", confidence |-> 8]>>)]))
      [] s = ReplyTopicsNine ->
            Loaded(JObj([topics |-> JList([i \in 1..9 |->
                [name |-> "t", description |-> "d", confidence |-> 15]])]))
      [] OTHER -> NotJson

\* a white-space character of a str
IsSpaceChar(c) == c \in {" ", "\n", "\t", "\r"}

\* s.strip()
RECURSIVE LStripSpace(_)
LStripSpace(s) ==
    IF Len(s) > 0 /\ IsSpaceChar(SubSeq(s, 1, 1)) THEN LStripSpace(SubSeq(s, 2, Len(s)))
    ELSE s

RECURSIVE RStripSpace(_)
RStripSpace(s) ==
    IF Len(s) > 0 /\ IsSpaceChar(SubSeq(s, Len(s), Len(s)))
    THEN RStripSpace(SubSeq(s, 1, Len(s) - 1))
    ELSE s

Strip(s) == RStripSpace(LStripSpace(s))

\* the dict an operation returns
Success(fields) == [success |-> TRUE, error |-> None, fields |-> fields]
Failure(error) == [success |-> FALSE, error |-> error, fields |-> EmptyMap]

\* result.get(k) and result.get(k, []) of a parsed JSON object
JsonGet(j, k) == IF k \in DOMAIN j.m THEN j.m[k] ELSE JNull
JsonGetList(j, k) == IF k \in DOMAIN j.m THEN j.m[k] ELSE JList(<<>>)

\* the exception, if any, of the provider call and of reading the reply as text
TextReplyError(reply) ==
    IF reply.raised THEN "Connection error."
    ELSE IF reply.content = None THEN "'NoneType' object has no attribute 'strip'"
    ELSE None

\* the exception, if any, of the provider call and of json.loads and of calling
\* .get on the parsed reply
JsonReplyError(reply, needsObject) ==
    IF reply.raised THEN "Connection error."
    ELSE IF reply.content = None
    THEN "the JSON object must be str, bytes or bytearray, not NoneType"
    ELSE IF ~json_loads(reply.content).ok THEN "Expecting value: line 1 column 1 (char 0)"
    ELSE IF needsObject /\ json_loads(reply.content).value.t # "obj"
    THEN "'list' object has no attribute 'get'"
    ELSE None

\* len(x) raises TypeError unless x is a str, a list or a dict
HasLen(j) == j.t \in {"str", "list", "obj"}
JsonLen(j) ==
    CASE j.t = "str" -> Len(j.s)
      [] j.t = "list" -> Len(j.l)
      [] j.t = "obj" -> Cardinality(DOMAIN j.m)
      [] OTHER -> 0

\* summarize_document as it would be if it counted the reply before strip()
summarize_document_raw(text, reply) ==
    IF TextReplyError(reply) # None
    THEN Failure("Summarization failed: " \o TextReplyError(reply))
    ELSE LET summary == Strip(reply.content)
         IN  Success([summary |-> summary, original_length |-> Len(text),
                      summary_length |-> Len(reply.content)])

\* OpenAIService.summarize_document
summarize_document(text, reply) ==
    IF TextReplyError(reply) # None
    THEN Failure("Summarization failed: " \o TextReplyError(reply))
    ELSE LET summary == Strip(reply.content)
         IN  Success([summary |-> summary, original_length |-> Len(text),
                      summary_length |-> Len(summary)])

\* OpenAIService.analyze_sentiment
analyze_sentiment(text, reply) ==
    IF JsonReplyError(reply, TRUE) # None
    THEN Failure("Sentiment analysis failed: " \o JsonReplyError(reply, TRUE))
    ELSE LET result == json_loads(reply.content).value
         IN  Success([sentiment |-> JsonGet(result, "sentiment"),
                      confidence |-> JsonGet(result, "confidence"),
                      explanation |-> JsonGet(result, "explanation")])

\* OpenAIService.extract_keywords
extract_keywords(text, reply) ==
    IF JsonReplyError(reply, TRUE) # None
    THEN Failure("Keyword extraction failed: " \o JsonReplyError(reply, TRUE))
    ELSE LET result == json_loads(reply.content).value
         IN  IF ~HasLen(JsonGetList(result, "keywords"))
             THEN Failure("Keyword extraction failed: object of type 'int' has no len()")
             ELSE Success([keywords |-> JsonGetList(result, "keywords"),
                           count |-> JsonLen(JsonGetList(result, "keywords"))])

\* OpenAIService.translate_text
translate_text(text, target_language, reply) ==
    IF TextReplyError(reply) # None
    THEN Failure("Translation failed: " \o TextReplyError(reply))
    ELSE LET translated_text == Strip(reply.content)
         IN  Success([translated_text |-> translated_text,
                      source_language |-> "auto-detected",
                      target_language |-> target_language,
                      original_length |-> Len(text),
                      translated_length |-> Len(translated_text)])

\* OpenAIService.structure_data: the parsed reply is returned as it is
structure_data(text, reply) ==
    IF JsonReplyError(reply, FALSE) # None
    THEN Failure("Data structuring failed: " \o JsonReplyError(reply, FALSE))
    ELSE Success([structured_data |-> json_loads(reply.content).value])

\* OpenAIService.detect_topics
detect_topics(text, reply) ==
    IF JsonReplyError(reply, TRUE) # None
    THEN Failure("Topic detection failed: " \o JsonReplyError(reply, TRUE))
    ELSE LET result == json_loads(reply.content).value
         IN  IF ~HasLen(JsonGetList(result, "topics"))
             THEN Failure("Topic detection failed: object of type 'int' has no len()")
             ELSE Success([topics |-> JsonGetList(result, "topics"),
                           topic_count |-> JsonLen(JsonGetList(result, "topics"))])

-----------------------------------------------------------------------------
(* services/azure_storage.py: the two calls to the blob store *)

\* what a call returns or raises; called: the request reached the blob store
Returned(value) == [ok |-> TRUE, value |-> <<value>>, exc |-> NoExc, called |-> TRUE]
Raised(e, called) == [ok |-> FALSE, value |-> <<>>, exc |-> e, called |-> called]

\* what the service answers a client whose blob it cannot serve, None if it can;
\* fault: the connection to the service fails
ServiceError(client, fault) ==
    IF fault THEN "ServiceRequestError"
    ELSE IF ~ValidContainerName(client.container) THEN "HttpResponseError"
    ELSE IF ~Lookup(client).exists THEN "ResourceNotFoundError"
    ELSE None

\* download_blob_content as it would be without its except ResourceNotFoundError
\* clause
download_blob_content_unmapped(blob_url_or_path, fault) ==
    LET blob_client == BlobClientFor(blob_url_or_path) IN
    IF ~blob_client.ok THEN Raised(blob_client.exc, FALSE)
    ELSE IF ServiceError(blob_client, fault) = "ResourceNotFoundError"
    THEN Raised(Exc("ResourceNotFoundError", "The specified blob does not exist."), TRUE)
    ELSE IF ServiceError(blob_client, fault) # None
    THEN Raised(Exc(ServiceError(blob_client, fault), "the request to the blob service failed"), TRUE)
    ELSE Returned(Lookup(blob_client).content)

\* AzureBlobStorage.download_blob_content: ResourceNotFoundError becomes
\* FileNotFoundError, every other exception is raised again
download_blob_content(blob_url_or_path, fault) ==
    LET blob_client == BlobClientFor(blob_url_or_path) IN
    IF ~blob_client.ok THEN Raised(blob_client.exc, FALSE)
    ELSE IF ServiceError(blob_client, fault) = "ResourceNotFoundError"
    THEN Raised(Exc("FileNotFoundError", "Blob not found: " \o blob_url_or_path), TRUE)
    ELSE IF ServiceError(blob_client, fault) # None
    THEN Raised(Exc(ServiceError(blob_client, fault), "the request to the blob service failed"), TRUE)
    ELSE Returned(Lookup(blob_client).content)

\* AzureBlobStorage.get_blob_properties: every exception is raised again
get_blob_properties(blob_url_or_path, fault) ==
    LET blob_client == PropertiesClientFor(blob_url_or_path) IN
    IF ~blob_client.ok THEN Raised(blob_client.exc, FALSE)
    ELSE IF ServiceError(blob_client, fault) = "ResourceNotFoundError"
    THEN Raised(Exc("ResourceNotFoundError", "The specified blob does not exist."), TRUE)
    ELSE IF ServiceError(blob_client, fault) # None
    THEN Raised(Exc(ServiceError(blob_client, fault), "the request to the blob service failed"), TRUE)
    ELSE Returned([content_type |-> Lookup(blob_client).content_type,
                   size |-> Len(Lookup(blob_client).content.bytes),
                   last_modified |-> Lookup(blob_client).ver,
                   name |-> blob_client.blob])

-----------------------------------------------------------------------------
(* routes/ai_endpoints.py *)

\* the error code each handler gives a failed derivation
FailedCode(e) ==
    CASE e = "/summarize" -> "summarization_failed"
      [] e = "/sentiment" -> "sentiment_analysis_failed"
      [] e = "/extract-keywords" -> "keyword_extraction_failed"
      [] e = "/translate" -> "translation_failed"
      [] e = "/structure-data" -> "data_structuring_failed"
      [] e = "/detect-topics" -> "topic_detection_failed"

SuccessMessage(e) ==
    CASE e = "/summarize" -> "Document summarized successfully"
      [] e = "/sentiment" -> "Sentiment analysis completed successfully"
      [] e = "/extract-keywords" -> "Keywords extracted successfully"
      [] e = "/translate" -> "Document translated successfully"
      [] e = "/structure-data" -> "Structured data extracted successfully"
      [] e = "/detect-topics" -> "Topics detected successfully"

\* the handlers as they would be if /translate passed no max_length
MaxLengthDefault(e) == DefaultMaxLength

\* the max_length each handler passes to validate_text_length
MaxLength(e) == IF e = "/translate" THEN TranslateMaxLength ELSE DefaultMaxLength

\* the openai_service call of each handler
Derivation(e, text, target_language, reply) ==
    CASE e = "/summarize" -> summarize_document(text, reply)
      [] e = "/sentiment" -> analyze_sentiment(text, reply)
      [] e = "/extract-keywords" -> extract_keywords(text, reply)
      [] e = "/translate" -> translate_text(text, target_language, reply)
      [] e = "/structure-data" -> structure_data(text, reply)
      [] e = "/detect-topics" -> detect_topics(text, reply)

\* response_data of each handler
ResponseData(e, file_path, properties, result, truncated) ==
    LET f == result.fields IN
    CASE e = "/summarize" ->
            [file_path |-> file_path, file_properties |-> properties,
             summary |-> f.summary, original_length |-> f.original_length,
             summary_length |-> f.summary_length, was_truncated |-> truncated]
      [] e = "/sentiment" ->
            [file_path |-> file_path, file_properties |-> properties,
             sentiment |-> f.sentiment, confidence |-> f.confidence,
             explanation |-> f.explanation, was_truncated |-> truncated]
      [] e = "/extract-keywords" ->
            [file_path |-> file_path, file_properties |-> properties,
             keywords |-> f.keywords, keyword_count |-> f.count,
             was_truncated |-> truncated]
      [] e = "/translate" ->
            [file_path |-> file_path, file_properties |-> properties,
             translated_text |-> f.translated_text,
             source_language |-> f.source_language,
             target_language |-> f.target_language,
             original_length |-> f.original_length,
             translated_length |-> f.translated_length, was_truncated |-> truncated]
      [] e = "/structure-data" ->
            [file_path |-> file_path, file_properties |-> properties,
             structured_data |-> f.structured_data, was_truncated |-> truncated]
      [] e = "/detect-topics" ->
            [file_path |-> file_path, file_properties |-> properties,
             topics |-> f.topics, topic_count |-> f.topic_count,
             was_truncated |-> truncated]

\* the three except clauses every handler ends with
HandleException(e) ==
    IF IsInstance(e, "FileNotFoundError")
    THEN create_error_response("file_not_found", e.msg, 404)
    ELSE IF IsInstance(e, "ValueError")
    THEN create_error_response("processing_error", e.msg, 400)
    ELSE create_error_response("internal_error", "An unexpected error occurred", 500)

\* data = request.get_json() and data.get('file_path') in the handler: the
\* exception they raise, NoExc if none.  A request that is not JSON makes
\* get_json raise (or return None, and then .get raises); a JSON value that is
\* no object has no .get
ReadDataError(r) ==
    IF ~IsJson(r) THEN Exc("UnsupportedMediaType", "415 Unsupported Media Type")
    ELSE IF r.json.t # "obj"
    THEN Exc("AttributeError", "'" \o r.json.t \o "' object has no attribute 'get'")
    ELSE NoExc

\* file_path and target_language as the handler reads them
FilePath(r) == DictGet(r.json.m, "file_path")
TargetLanguage(r) == DictGet(r.json.m, "target_language")

-----------------------------------------------------------------------------
(* The requests clients send *)

\* a header the code has not read yet
Unread == "<unread>"

NoRequest ==
    [endpoint |-> None, xkey |-> Unread, auth |-> Unread, ctype |-> "form",
     json |-> JNull, form |-> EmptyMap]

\* "Bearer " n times
RECURSIVE Bearers(_)
Bearers(n) == IF n = 0 THEN "" ELSE BearerPrefix \o Bearers(n - 1)

\* the keys a client of endpoint e may present
KeyTexts(e) == {"", DefaultKeys[e], DefaultKeys[OtherEndpoint(e)], "wrong-value"}

\* the values of a key header: absent, or a key after some "Bearer " prefixes
HeaderValues(e) ==
    {None} \cup {Bearers(n) \o k : n \in 0..MaxBearer, k \in KeyTexts(e)}

Host == "https://acct.blob.core.windows.net"

\* the reference of the blob of StoreKeys in its container/name form
GoodPath == "demo/docs/report.pdf"

\* the values of file_path
FilePaths ==
    { GoodPath,
      Host \o "/" \o GoodPath,
      Host \o "/" \o GoodPath \o "?sv=2024&sig=abc",
      "demo/missing.txt",
      Host \o "/demo/missing.txt",
      Host \o "/report.pdf",
      "http://acct.blob.core.windows.net/" \o GoodPath,
      "report.pdf",
      "demo/",
      "/report.pdf",
      Host \o "/demo/docs/report",
      "",
      None }

\* the JSON objects and forms sent to endpoint e
FieldMaps(e) ==
    {[file_path |-> p] : p \in FilePaths}
    \cup {[file_path |-> p, target_language |-> "Hindi"] :
            p \in IF e = "/translate" THEN FilePaths ELSE {GoodPath}}
    \cup {[target_language |-> "Hindi"], [note |-> "x"], EmptyMap}

Body(ctype, json, form) == [ctype |-> ctype, json |-> json, form |-> form]

\* the bodies sent to endpoint e: JSON of every type, form data, and none
Bodies(e) ==
    {Body("json", j, EmptyMap) :
        j \in {JMalformed, JNull, JNum(0), JNum(5), JStr(""),
               JStr("file_path, target_language"), JList(<<>>),
               JList(<<"file_path", "target_language">>)}
              \cup {JObj(m) : m \in FieldMaps(e)}}
    \cup {Body("form", JNull, m) :
            m \in {EmptyMap, [file_path |-> GoodPath],
                   [file_path |-> GoodPath, target_language |-> "Hindi"]}}

-----------------------------------------------------------------------------
(* The state machine *)

\* the decorators as they would be if validate_request_data were the outer one
DecoratorsSwapped == <<"validate", "auth">>

\* the decorators of every task route, the outermost first
Decorators == <<"auth", "validate">>

\* the stage that runs when stage s calls the function it wraps
StageAfter(s) ==
    LET order == Decorators \o <<"handler">>
        i == CHOOSE j \in 1..Len(order) : order[j] = s
    IN  order[i + 1]

NoReply == Reply(FALSE, None)

\* no function is called on its own
NoCall == [fn |-> None]

NoContent == Content(<<>>, NotAPdf)
NoProperties == [content_type |-> None, size |-> 0, last_modified |-> None, name |-> None]

\* the requests served at the same time
RequestIds == {1, 2}

\* the locals of a handler call before its first assignment
NoFrame ==
    [file_content |-> NoContent, file_properties |-> NoProperties,
     text_content |-> <<>>, was_truncated |-> FALSE]

\* a worker with no request; download, properties and reply record what the
\* blob store and the LLM provider answered this request
IdleWorker ==
    [req |-> NoRequest, pc |-> "idle", resp |-> NoResponse,
     download |-> Raised(NoExc, FALSE), properties |-> Raised(NoExc, FALSE),
     reply |-> NoReply]

Init ==
    /\ apiKeys \in KeyConfigs
    /\ debug \in BOOLEAN
    /\ store \in [StoreKeys -> Versions \cup {Absent}]
    /\ changes = 0
    /\ req = NoRequest
    /\ pc = "idle"
    /\ file_content = NoContent
    /\ file_properties = NoProperties
    /\ text_content = <<>>
    /\ was_truncated = FALSE
    /\ trace = <<>>
    /\ exception = NoExc
    /\ llm_reply = NoReply
    /\ resp = NoResponse
    /\ lib_call = NoCall
    /\ lib_result = NoCall
    /\ workers = [i \in RequestIds |-> IdleWorker]
    /\ frames = [i \in RequestIds |-> NoFrame]

\* the request ends with response r; e is the exception that ended it, if any
Finish(r, e) ==
    /\ pc' = "done"
    /\ resp' = r
    /\ exception' = e

Continue(next) ==
    /\ pc' = next
    /\ UNCHANGED <<resp, exception>>

\* a client sends a POST to a task endpoint; its headers are drawn where the
\* code reads them
Receive ==
    /\ pc = "idle"
    /\ \E e \in EndpointSet : \E b \in Bodies(e) :
          req' = [NoRequest EXCEPT !.endpoint = e, !.ctype = b.ctype,
                                   !.json = b.json, !.form = b.form]
    /\ pc' = Decorators[1]
    /\ file_content' = NoContent
    /\ file_properties' = NoProperties
    /\ text_content' = <<>>
    /\ was_truncated' = FALSE
    /\ trace' = <<>>
    /\ exception' = NoExc
    /\ resp' = NoResponse
    /\ UNCHANGED <<workers, frames, lib_call, lib_result, apiKeys, debug, store, changes, llm_reply>>

\* decorated_function of require_api_key: Authorization is read only when
\* X-API-Key is absent or empty
Authenticate ==
    /\ pc = "auth"
    /\ \E xkey \in HeaderValues(req.endpoint) :
       \E auth \in IF Truthy(xkey) THEN {Unread} ELSE HeaderValues(req.endpoint) :
       \E r \in {[req EXCEPT !.xkey = xkey, !.auth = auth]} :
       \E out \in {require_api_key(r.endpoint, r)} :
          /\ req' = r
          /\ IF out = NoResponse THEN Continue(StageAfter("auth"))
             ELSE Finish(out, NoExc)
    /\ trace' = Append(trace, "auth")
    /\ UNCHANGED <<workers, frames, lib_call, lib_result, apiKeys, debug, store, changes, file_content, file_properties,
                   text_content, was_truncated, llm_reply>>

\* decorated_function of validate_request_data
Validate ==
    /\ pc = "validate"
    /\ \E out \in {validate_request_data(RequiredFields(req.endpoint), req)} :
          IF out.kind = "call" THEN Continue(StageAfter("validate"))
          ELSE IF out.kind = "return" THEN Finish(out.resp, NoExc)
          ELSE Finish(UncaughtException(out.exc), out.exc)
    /\ trace' = Append(trace, "validate")
    /\ UNCHANGED <<workers, frames, lib_call, lib_result, apiKeys, debug, store, changes, req, file_content, file_properties,
                   text_content, was_truncated, llm_reply>>

\* the handler body up to its first call to the blob store
HandlerStart ==
    /\ pc = "handler"
    /\ \E e \in {ReadDataError(req)} :
          IF e # NoExc
          THEN Finish(HandleException(e), e)
          ELSE IF ~validate_file_path(FilePath(req))
          THEN Finish(create_error_response("invalid_file_path",
                                            "Invalid file path format", 400), NoExc)
          ELSE Continue("download")
    /\ trace' = Append(trace, "handler")
    /\ UNCHANGED <<workers, frames, lib_call, lib_result, apiKeys, debug, store, changes, req, file_content, file_properties,
                   text_content, was_truncated, llm_reply>>

\* file_content = azure_storage.download_blob_content(file_path)
Download ==
    /\ pc = "download"
    /\ \E fault \in BOOLEAN :
       \E out \in {download_blob_content(FilePath(req), fault)} :
          /\ trace' = IF out.called THEN Append(trace, "store.download") ELSE trace
          /\ IF out.ok
             THEN /\ file_content' = out.value[1]
                  /\ Continue("properties")
             ELSE /\ file_content' = file_content
                  /\ Finish(HandleException(out.exc), out.exc)
    /\ UNCHANGED <<workers, frames, lib_call, lib_result, apiKeys, debug, store, changes, req, file_properties, text_content,
                   was_truncated, llm_reply>>

\* file_properties = azure_storage.get_blob_properties(file_path)
Properties ==
    /\ pc = "properties"
    /\ \E fault \in BOOLEAN :
       \E out \in {get_blob_properties(FilePath(req), fault)} :
          /\ trace' = IF out.called THEN Append(trace, "store.properties") ELSE trace
          /\ IF out.ok
             THEN /\ file_properties' = out.value[1]
                  /\ Continue("extract")
             ELSE /\ file_properties' = file_properties
                  /\ Finish(HandleException(out.exc), out.exc)
    /\ UNCHANGED <<workers, frames, lib_call, lib_result, apiKeys, debug, store, changes, req, file_content, text_content,
                   was_truncated, llm_reply>>

\* extract_text_from_content and validate_text_length
Extract ==
    /\ pc = "extract"
    /\ \E out \in {extract_text_from_content(file_content, file_properties.content_type,
                                              file_properties.name)} :
       \E limited \in {validate_text_length(out.text, MaxLength(req.endpoint))} :
          IF out.ok
          THEN /\ text_content' = limited[1]
               /\ was_truncated' = limited[2]
               /\ Continue("derive")
          ELSE /\ UNCHANGED <<text_content, was_truncated>>
               /\ Finish(HandleException(out.exc), out.exc)
    /\ trace' = Append(trace, "extract")
    /\ UNCHANGED <<workers, frames, lib_call, lib_result, apiKeys, debug, store, changes, req, file_content, file_properties,
                   llm_reply>>

\* the openai_service call and the response built from its result
Derive ==
    /\ pc = "derive"
    /\ \E answer \in Replies :
       \E result \in {Derivation(req.endpoint, text_content, TargetLanguage(req), answer)} :
          /\ llm_reply' = answer
          /\ IF ~result.success
             THEN Finish(create_error_response(FailedCode(req.endpoint),
                                               result.error, 500), NoExc)
             ELSE Finish(create_success_response(
                             ResponseData(req.endpoint, FilePath(req), file_properties,
                                          result, was_truncated),
                             SuccessMessage(req.endpoint)), NoExc)
    /\ trace' = Append(trace, "llm")
    /\ UNCHANGED <<workers, frames, lib_call, lib_result, apiKeys, debug, store, changes, req, file_content, file_properties,
                   text_content, was_truncated>>

\* another party deletes a blob while the handler is at its calls to the store
\* (a change before them is another initial store, one after them is not read)
DeleteBlob ==
    /\ pc \in {"download", "properties"}
    /\ changes < MaxStoreChanges
    /\ \E k \in StoreKeys :
          /\ store[k].exists
          /\ store' = [store EXCEPT ![k] = Absent]
    /\ changes' = changes + 1
    /\ UNCHANGED <<workers, frames, lib_call, lib_result, apiKeys, debug, req, pc, file_content, file_properties, text_content,
                   was_truncated, trace, exception, llm_reply, resp>>

\* another party uploads a blob, new or over the one there is, at such a moment
PutBlob ==
    /\ pc \in {"download", "properties"}
    /\ changes < MaxStoreChanges
    /\ \E k \in StoreKeys : \E v \in Versions :
          /\ store[k] # v
          /\ store' = [store EXCEPT ![k] = v]
    /\ changes' = changes + 1
    /\ UNCHANGED <<workers, frames, lib_call, lib_result, apiKeys, debug, req, pc, file_content, file_properties, text_content,
                   was_truncated, trace, exception, llm_reply, resp>>

Next ==
    \/ Receive
    \/ Authenticate
    \/ Validate
    \/ HandlerStart
    \/ Download
    \/ Properties
    \/ Extract
    \/ Derive
    \/ DeleteBlob
    \/ PutBlob

Spec == Init /\ [][Next]_vars

-----------------------------------------------------------------------------
(* The functions of the services, each called on its own with arguments drawn *)
(* from small sets; a behaviour is one call.                                  *)

\* the longest byte string decoded
MaxBytes == 3
\* the longest string encoded
MaxChars == 2
\* the longest text limited, and the largest max_length
MaxTextLen == 3
MaxBudget == 4
\* how many pages a PDF document has
MaxPages == 2

\* all sequences over alphabet of length n, and of length up to n
RECURSIVE SeqsOfLen(_, _)
SeqsOfLen(alphabet, n) ==
    IF n = 0 THEN {<<>>}
    ELSE {<<a>> \o t : a \in alphabet, t \in SeqsOfLen(alphabet, n - 1)}

SeqsUpTo(alphabet, n) == UNION {SeqsOfLen(alphabet, k) : k \in 0..n}

\* containers and blob names a reference is made of
Containers == {"demo", "c"}
BlobNames == {"n.txt", "docs/report", "docs/report.pdf", "a/b/c.txt", "/x.txt", "dir/", "a b.txt",
              "notes#1.txt", "what?.txt"}

\* content types, file names and contents file-kind detection is given
ContentTypes ==
    {None, "", "application/pdf", "Application/PDF", "text/plain", "TEXT/html",
     "text/x-pdf", "application/octet-stream", "application/json"}
FileNames ==
    {None, "", "a.pdf", "A.PDF", "a.txt", "b.md", "c.CSV", "d.json", "e.xml",
     "notes", "a.pdf.txt", "a.txt.pdf", "pdf", "a.docx"}
FileContents ==
    {<<>>, PdfMagic, PdfMagic \o <<45, 49>>, <<37, 80, 68>>, <<32>> \o PdfMagic, TxtOk}

\* the bytes text decoding is given: "A", NUL, the two bytes of U+00E9 in UTF-8,
\* the bytes of the byte order marks, and the high byte of a surrogate
Bytes == {65, 0, 195, 169, 255, 254, 216}
ByteStrings == SeqsUpTo(Bytes, MaxBytes)

\* the characters of the strings encoded: of 1, 2, 3 and 4 bytes in UTF-8, the
\* byte order mark U+FEFF, "%" and NUL
Chars == {65, 37, 0, 233, 8364, 65279, 128512}
Strings == SeqsUpTo(Chars, MaxChars)

\* str.encode('utf-8') of a string without surrogates
RECURSIVE EncodeUtf8(_)
EncodeUtf8(str) ==
    IF str = <<>> THEN <<>>
    ELSE LET c == str[1]
             bs == IF c < 128 THEN <<c>>
                   ELSE IF c < 2048 THEN <<192 + (c \div 64), 128 + (c % 64)>>
                   ELSE IF c < 65536
                   THEN <<224 + (c \div 4096), 128 + ((c \div 64) % 64), 128 + (c % 64)>>
                   ELSE <<240 + (c \div 262144), 128 + ((c \div 4096) % 64),
                          128 + ((c \div 64) % 64), 128 + (c % 64)>>
         IN  bs \o EncodeUtf8(Tail(str))

\* the texts and the values of max_length the limiter is given
Texts == SeqsUpTo({97, 98}, MaxTextLen)
Budgets == 0..MaxBudget

\* the variables of the request pipeline
requestVars ==
    <<apiKeys, debug, store, changes, req, pc, file_content, file_properties,
      text_content, was_truncated, trace, exception, llm_reply, resp, workers, frames>>

LibInit ==
    /\ apiKeys = DefaultKeys
    /\ debug = FALSE
    /\ store = [k \in StoreKeys |-> Absent]
    /\ changes = 0
    /\ req = NoRequest
    /\ pc = "idle"
    /\ file_content = NoContent
    /\ file_properties = NoProperties
    /\ text_content = <<>>
    /\ was_truncated = FALSE
    /\ trace = <<>>
    /\ exception = NoExc
    /\ llm_reply = NoReply
    /\ resp = NoResponse
    /\ lib_call = NoCall
    /\ lib_result = NoCall
    /\ workers = [i \in RequestIds |-> IdleWorker]
    /\ frames = [i \in RequestIds |-> NoFrame]

\* both storage functions resolve the URL and the container/name form of a blob
ResolveReference ==
    /\ lib_call = NoCall
    /\ \E c \in Containers : \E n \in BlobNames :
          LET url == Host \o "/" \o c \o "/" \o n
              path == c \o "/" \o n
          IN  /\ lib_call' = [fn |-> "resolve", container |-> c, name |-> n,
                              url |-> url, path |-> path]
              /\ lib_result' = [url_download |-> BlobClientFor(url),
                                url_properties |-> PropertiesClientFor(url),
                                path_download |-> BlobClientFor(path),
                                path_properties |-> PropertiesClientFor(path)]
    /\ UNCHANGED requestVars

\* FileProcessor._determine_file_type
DetectFileType ==
    /\ lib_call = NoCall
    /\ \E t \in ContentTypes : \E f \in FileNames : \E c \in FileContents :
          /\ lib_call' = [fn |-> "detect", content_type |-> t, filename |-> f,
                          content |-> c]
          /\ lib_result' = determine_file_type(t, f, Content(c, NotAPdf))
    /\ UNCHANGED requestVars

\* FileProcessor._extract_from_text on arbitrary bytes
DecodeText ==
    /\ lib_call = NoCall
    /\ \E bs \in ByteStrings :
          /\ lib_call' = [fn |-> "decode", bytes |-> bs]
          /\ lib_result' = [extracted |-> extract_from_text(Content(bs, NotAPdf)),
                            tried |-> Attempts(bs, 1)]
    /\ UNCHANGED requestVars

\* FileProcessor._extract_from_text on the UTF-8 encoding of a string
ExtractEncoded ==
    /\ lib_call = NoCall
    /\ \E str \in Strings :
          /\ lib_call' = [fn |-> "roundtrip", string |-> str]
          /\ lib_result' = extract_from_text(Content(EncodeUtf8(str), NotAPdf))
    /\ UNCHANGED requestVars

\* FileProcessor.validate_text_length, and once more on the text it returned
LimitText ==
    /\ lib_call = NoCall
    /\ \E text \in Texts : \E max \in Budgets :
          LET once == validate_text_length(text, max) IN
          /\ lib_call' = [fn |-> "limit", text |-> text, max |-> max]
          /\ lib_result' = [once |-> once, twice |-> validate_text_length(once[1], max)]
    /\ UNCHANGED requestVars

\* what extract_text() returns for a page: text, blanks, nothing
PageTexts == {TxtGreat, TxtOk, TxtBlank, <<>>, <<32>> \o TxtOk \o <<10>>}

\* the documents PdfReader is given: encrypted or not, of up to MaxPages pages,
\* and bytes that are no PDF
PdfDocuments ==
    {Pdf(k, p) : k \in {"plain", "encrypted"}, p \in SeqsUpTo(PageTexts, MaxPages)}
        \cup {NotAPdf}

\* FileProcessor._extract_from_pdf
ExtractPdf ==
    /\ lib_call = NoCall
    /\ \E d \in PdfDocuments :
          /\ lib_call' = [fn |-> "pdf", pdf |-> d]
          /\ lib_result' = [extracted |-> extract_from_pdf(Content(PdfMagic, d)),
                            pages_read |-> PagesRead(Content(PdfMagic, d))]
    /\ UNCHANGED requestVars

\* OpenAI(api_key=OPENAI_API_KEY) is built without max_retries: the client's
\* default, the number of times it sends a request again
OpenAiMaxRetries == 2

\* what the provider does with one request sent to it: it replies, it fails in
\* a way the client takes as transient (no connection, time-out, 408, 409, 429,
\* 5xx), or it rejects the request (another 4xx)
ProviderOutcomes == {"reply", "transient", "rejected"}

\* client.chat.completions.create from its i-th request on, the provider doing
\* outcomes[j] with the j-th request: a reply is returned, a rejection is
\* raised, after a transient failure the request is sent again until the retries
\* are used up
RECURSIVE create_completion(_, _)
create_completion(outcomes, i) ==
    IF outcomes[i] = "reply" THEN [raised |-> FALSE, requests |-> i]
    ELSE IF outcomes[i] = "rejected" THEN [raised |-> TRUE, requests |-> i]
    ELSE IF i > OpenAiMaxRetries THEN [raised |-> TRUE, requests |-> i]
    ELSE create_completion(outcomes, i + 1)

\* the one call of client.chat.completions.create a derivation makes
CreateCompletion ==
    /\ lib_call = NoCall
    /\ \E outcomes \in [1..(OpenAiMaxRetries + 1) -> ProviderOutcomes] :
          /\ lib_call' = [fn |-> "create", outcomes |-> outcomes]
          /\ lib_result' = create_completion(outcomes, 1)
    /\ UNCHANGED requestVars

\* the lengths of extracted text tried against the budgets: short texts, and
\* texts one shorter than, as long as, and one longer than each budget
TextLengths ==
    {0, 1} \cup {b + d : b \in {TranslateMaxLength, DefaultMaxLength}, d \in {-1, 0, 1}}

\* an extracted text of n characters
TextOfLen(n) == [i \in 1..n |-> 97]

\* the two lines every handler has between extraction and the LLM call: the text
\* is limited to the task's max_length, and the limited text is what the
\* openai_service function is given
LimitForTask ==
    /\ lib_call = NoCall
    /\ \E e \in EndpointSet : \E n \in TextLengths :
          LET limited == validate_text_length(TextOfLen(n), MaxLength(e)) IN
          /\ lib_call' = [fn |-> "task_limit", endpoint |-> e, length |-> n]
          /\ lib_result' = [llm_length |-> Len(limited[1]), was_truncated |-> limited[2]]
    /\ UNCHANGED requestVars

LibNext ==
    \/ ResolveReference
    \/ DetectFileType
    \/ DecodeText
    \/ ExtractEncoded
    \/ LimitText
    \/ LimitForTask
    \/ ExtractPdf
    \/ CreateCompletion

LibSpec == LibInit /\ [][LibNext]_vars

-----------------------------------------------------------------------------
(* Requests served concurrently: the server runs the view function of each *)
(* request in a thread of its own; the service objects, the configuration  *)
(* and the blob store are shared, flask.request and the locals are not     *)

\* where the locals of the handler call that serves request i live, as it would
\* be if the handlers kept them in attributes of the module-level services
SlotShared(i) == 1

\* every call of a handler has its own locals
Slot(i) == i

\* the requests clients send at the same time: three that go through the whole
\* pipeline, one for a blob that is not there, one with a wrong key and one
\* without file_path
ConcRequests ==
    {[NoRequest EXCEPT !.endpoint = t[1], !.xkey = t[2], !.ctype = "json", !.json = JObj(t[3])] :
        t \in {<<"/summarize", "summarize-key-123", [file_path |-> GoodPath]>>,
               <<"/sentiment", "sentiment-key-123", [file_path |-> Host \o "/" \o GoodPath]>>,
               <<"/translate", "translate-key-123",
                 [file_path |-> GoodPath, target_language |-> "Hindi"]>>,
               <<"/summarize", "summarize-key-123", [file_path |-> "demo/missing.txt"]>>,
               <<"/sentiment", "wrong-value", [file_path |-> GoodPath]>>,
               <<"/summarize", "summarize-key-123", [note |-> "x"]>>}}

\* the versions of the blob while these requests are served
ConcVersions == {v \in Versions : v.ver \in {"review", "report", "scanned"}}

\* what the LLM provider answers them
ConcReplies == {Reply(TRUE, None), Reply(FALSE, ReplyText), Reply(FALSE, ReplySentiment)}

\* the variables of the request served alone
aloneVars ==
    <<req, pc, file_content, file_properties, text_content, was_truncated, trace,
      exception, llm_reply, resp, lib_call, lib_result>>

ConcInit ==
    /\ apiKeys = DefaultKeys
    /\ debug \in BOOLEAN
    /\ store \in [StoreKeys -> ConcVersions]
    /\ changes = 0
    /\ req = NoRequest
    /\ pc = "idle"
    /\ file_content = NoContent
    /\ file_properties = NoProperties
    /\ text_content = <<>>
    /\ was_truncated = FALSE
    /\ trace = <<>>
    /\ exception = NoExc
    /\ llm_reply = NoReply
    /\ resp = NoResponse
    /\ lib_call = NoCall
    /\ lib_result = NoCall
    /\ workers = [i \in RequestIds |-> IdleWorker]
    /\ frames = [i \in RequestIds |-> NoFrame]

\* the two decorators and the handler body up to its first call to the blob
\* store: the response they end the request with, NoResponse if they do not
Checked(r) ==
    LET a == require_api_key(r.endpoint, r)
        v == validate_request_data(RequiredFields(r.endpoint), r)
    IN  IF a # NoResponse THEN a
        ELSE IF v.kind = "return" THEN v.resp
        ELSE IF v.kind = "raise" THEN UncaughtException(v.exc)
        ELSE IF ReadDataError(r) # NoExc THEN HandleException(ReadDataError(r))
        ELSE IF ~validate_file_path(FilePath(r))
        THEN create_error_response("invalid_file_path", "Invalid file path format", 400)
        ELSE NoResponse

\* the handler body from the derivation on: the response for the text, the
\* properties and the provider's answer
Derived(r, properties, text, truncated, answer) ==
    LET result == Derivation(r.endpoint, text, TargetLanguage(r), answer) IN
    IF ~result.success
    THEN create_error_response(FailedCode(r.endpoint), result.error, 500)
    ELSE create_success_response(
             ResponseData(r.endpoint, FilePath(r), properties, result, truncated),
             SuccessMessage(r.endpoint))

\* a request arrives and a thread starts to serve it
ConcReceive(i) ==
    /\ workers[i].pc = "idle"
    /\ \E r \in ConcRequests :
          workers' = [workers EXCEPT ![i] = [IdleWorker EXCEPT !.req = r, !.pc = "check"]]
    /\ frames' = [frames EXCEPT ![Slot(i)] = NoFrame]
    /\ UNCHANGED <<apiKeys, debug, store, changes, aloneVars>>

\* the decorators and the start of the handler body
ConcCheck(i) ==
    /\ workers[i].pc = "check"
    /\ \E answer \in {Checked(workers[i].req)} :
          workers' = [workers EXCEPT ![i] =
                         IF answer # NoResponse
                         THEN [@ EXCEPT !.pc = "done", !.resp = answer]
                         ELSE [@ EXCEPT !.pc = "download"]]
    /\ UNCHANGED <<apiKeys, debug, store, changes, frames, aloneVars>>

\* file_content = azure_storage.download_blob_content(file_path)
ConcDownload(i) ==
    /\ workers[i].pc = "download"
    /\ \E out \in {download_blob_content(FilePath(workers[i].req), FALSE)} :
          /\ workers' = [workers EXCEPT ![i] =
                            IF out.ok THEN [@ EXCEPT !.pc = "properties", !.download = out]
                            ELSE [@ EXCEPT !.pc = "done", !.download = out,
                                           !.resp = HandleException(out.exc)]]
          /\ frames' = IF out.ok
                       THEN [frames EXCEPT ![Slot(i)].file_content = out.value[1]]
                       ELSE frames
    /\ UNCHANGED <<apiKeys, debug, store, changes, aloneVars>>

\* file_properties = azure_storage.get_blob_properties(file_path)
ConcProperties(i) ==
    /\ workers[i].pc = "properties"
    /\ \E out \in {get_blob_properties(FilePath(workers[i].req), FALSE)} :
          /\ workers' = [workers EXCEPT ![i] =
                            IF out.ok THEN [@ EXCEPT !.pc = "extract", !.properties = out]
                            ELSE [@ EXCEPT !.pc = "done", !.properties = out,
                                           !.resp = HandleException(out.exc)]]
          /\ frames' = IF out.ok
                       THEN [frames EXCEPT ![Slot(i)].file_properties = out.value[1]]
                       ELSE frames
    /\ UNCHANGED <<apiKeys, debug, store, changes, aloneVars>>

\* extract_text_from_content and validate_text_length
ConcExtract(i) ==
    /\ workers[i].pc = "extract"
    /\ \E f \in {frames[Slot(i)]} :
       \E out \in {extract_text_from_content(f.file_content, f.file_properties.content_type,
                                              f.file_properties.name)} :
       \E limited \in {validate_text_length(out.text, MaxLength(workers[i].req.endpoint))} :
           IF out.ok
           THEN /\ frames' = [frames EXCEPT ![Slot(i)].text_content = limited[1],
                                            ![Slot(i)].was_truncated = limited[2]]
                /\ workers' = [workers EXCEPT ![i].pc = "derive"]
           ELSE /\ frames' = frames
                /\ workers' = [workers EXCEPT ![i].pc = "done",
                                              ![i].resp = HandleException(out.exc)]
    /\ UNCHANGED <<apiKeys, debug, store, changes, aloneVars>>

\* the openai_service call and the response
ConcDerive(i) ==
    /\ workers[i].pc = "derive"
    /\ \E answer \in ConcReplies :
          LET f == frames[Slot(i)] IN
          workers' = [workers EXCEPT
                         ![i].pc = "done",
                         ![i].reply = answer,
                         ![i].resp = Derived(workers[i].req, f.file_properties, f.text_content,
                                             f.was_truncated, answer)]
    /\ UNCHANGED <<apiKeys, debug, store, changes, frames, aloneVars>>

\* another party overwrites the blob while the requests are served
ConcPutBlob ==
    /\ changes < MaxStoreChanges
    /\ \E i \in RequestIds : workers[i].pc \in {"download", "properties"}
    /\ \E k \in StoreKeys : \E v \in ConcVersions :
          /\ store[k] # v
          /\ store' = [store EXCEPT ![k] = v]
    /\ changes' = changes + 1
    /\ UNCHANGED <<apiKeys, debug, workers, frames, aloneVars>>

ConcNext ==
    \/ \E i \in RequestIds : ConcReceive(i)
    \/ \E i \in RequestIds : ConcCheck(i)
    \/ \E i \in RequestIds : ConcDownload(i)
    \/ \E i \in RequestIds : ConcProperties(i)
    \/ \E i \in RequestIds : ConcExtract(i)
    \/ \E i \in RequestIds : ConcDerive(i)
    \/ ConcPutBlob

ConcSpec == ConcInit /\ [][ConcNext]_vars

-----------------------------------------------------------------------------
(* What a reachable state says about the request it serves *)

\* stage s has run
Stage(s) == \E i \in 1..Len(trace) : trace[i] = s

\* the stage that ran last
LastStage == IF trace = <<>> THEN None ELSE trace[Len(trace)]

\* the decorator has read the key headers
HeadersRead == req.xkey # Unread

\* a call to the blob store or to the LLM provider was made
StoreCalled == Stage("store.download") \/ Stage("store.properties")
LlmCalled == Stage("llm")

\* the key is missing, or is not the key configured for the endpoint
KeyFails ==
    /\ HeadersRead
    /\ ~Truthy(ApiKey(req)) \/ ApiKey(req) # apiKeys[req.endpoint]

\* the names of the fields the body carries
BodyFields(r) ==
    IF r.ctype = "json"
    THEN IF r.json.t = "obj" THEN DOMAIN r.json.m ELSE {}
    ELSE DOMAIN r.form

\* the required fields of r's endpoint that its body omits
Omitted(r) ==
    {f \in {RequiredFields(r.endpoint)[i] : i \in 1..Len(RequiredFields(r.endpoint))} :
        f \notin BodyFields(r)}

-----------------------------------------------------------------------------
(* C1 *)

\* neither header is there, or the header that carries the key is empty or is
\* only the prefix "Bearer "
NoKeyPresented ==
    \/ req.xkey \in {None, ""} /\ req.auth \in {None, "", BearerPrefix}
    \/ req.xkey = BearerPrefix

\* C1: on every endpoint a request that carries no API key (no X-API-Key and no
\* Authorization header, or a key that is empty once "Bearer " is removed) is
\* answered 401 "API key required", and neither validation nor the handler, the
\* blob store or the LLM provider is reached.
C1_NoKeyIs401 ==
    (HeadersRead /\ NoKeyPresented) =>
        /\ pc = "done"
        /\ resp.code = 401
        /\ resp.error = "API key required"
        /\ trace = <<"auth">>

\* a request to /detect-topics with only "Authorization: Bearer " was answered 401
C1_Witness ==
    /\ pc = "done"
    /\ req.endpoint = "/detect-topics"
    /\ req.xkey = None /\ req.auth = BearerPrefix
    /\ resp.code = 401

-----------------------------------------------------------------------------
(* C2 *)

\* the request presents a key, and it is not the key configured for its endpoint
WrongKey == HeadersRead /\ Truthy(ApiKey(req)) /\ ApiKey(req) # apiKeys[req.endpoint]

\* C2 as the specification states it: a request whose key is non-empty and is
\* not the key configured for its endpoint is answered 403 and its handler never
\* runs, also when the key is the valid key of another endpoint; the handler is
\* reached only with the endpoint's own key.
C2_WrongKeyIs403 ==
    /\ WrongKey => (pc = "done" /\ resp.code = 403 /\ ~Stage("handler"))
    /\ Stage("handler") => ApiKey(req) = apiKeys[req.endpoint]

\* C2: a request whose key is non-empty and is not the key configured for its
\* endpoint never reaches validation or the handler; it is answered 403 "Invalid
\* API key" when the endpoint has a key configured, and 500 "Endpoint not
\* configured" when the configured key is empty.  The handler is reached only
\* with the endpoint's own key.
C2_WrongKeyRejected ==
    /\ WrongKey =>
          /\ pc = "done"
          /\ trace = <<"auth">>
          /\ IF Truthy(apiKeys[req.endpoint])
             THEN resp.code = 403 /\ resp.error = "Invalid API key"
             ELSE resp.code = 500 /\ resp.error = "Endpoint not configured"
    /\ Stage("handler") => ApiKey(req) = apiKeys[req.endpoint]

\* a request that presented the configured key of another endpoint in
\* Authorization was answered 403
C2_Witness ==
    /\ pc = "done"
    /\ req.xkey = None
    /\ req.auth = BearerPrefix \o apiKeys[OtherEndpoint(req.endpoint)]
    /\ Truthy(apiKeys[OtherEndpoint(req.endpoint)])
    /\ resp.code = 403

-----------------------------------------------------------------------------
(* C3 *)

\* the request r with the value k of its X-API-Key header sent as
\* "Authorization: Bearer k" instead
ViaAuthorization(r) == [r EXCEPT !.xkey = None, !.auth = BearerPrefix \o r.xkey]

\* what the authentication decorator did with the request: its own response, or
\* NoResponse when it called the function it wraps
AuthOutcome == IF pc = "done" /\ LastStage = "auth" THEN resp ELSE NoResponse

\* C3: a request that presents a key k only as "X-API-Key: k" has the
\* authentication outcome of the request that presents it only as
\* "Authorization: Bearer k".
C3_SameOutcomeEitherHeader ==
    (Stage("auth") /\ req.xkey \notin {Unread, None} /\ req.auth \in {Unread, None}) =>
        AuthOutcome = require_api_key(req.endpoint, ViaAuthorization(req))

-----------------------------------------------------------------------------
(* C4 *)

\* C4 as the specification states it: a request that fails authentication and
\* also lacks required fields gets the authentication error, 401 or 403, and
\* the handler starts only after authentication and then validation.
C4_AuthErrorIs401Or403 ==
    /\ (KeyFails /\ Omitted(req) # {}) => (pc = "done" /\ resp.code \in {401, 403})
    /\ Stage("handler") =>
          (Len(trace) >= 3 /\ SubSeq(trace, 1, 3) = <<"auth", "validate", "handler">>)

\* C4: authentication runs before validation and validation before the handler.
\* A request that fails authentication and also lacks required fields is
\* answered by the authentication decorator alone (401 "API key required", 403
\* "Invalid API key", or 500 "Endpoint not configured" when the endpoint's
\* configured key is empty), never by validation; validation runs only for a
\* request whose key passed, and the handler starts only after both.
C4_AuthBeforeValidation ==
    /\ (KeyFails /\ Omitted(req) # {}) =>
          /\ pc = "done"
          /\ trace = <<"auth">>
          /\ \/ resp.code = 401 /\ resp.error = "API key required"
             \/ resp.code = 403 /\ resp.error = "Invalid API key"
             \/ /\ resp.code = 500 /\ resp.error = "Endpoint not configured"
                /\ ~Truthy(apiKeys[req.endpoint])
    /\ Stage("validate") => (trace[1] = "auth" /\ ~KeyFails)
    /\ Stage("handler") =>
          /\ Len(trace) >= 3
          /\ SubSeq(trace, 1, 3) = <<"auth", "validate", "handler">>
          /\ ~KeyFails

\* a request to /translate without target_language and with a wrong key was
\* answered 403
C4_Witness ==
    /\ pc = "done"
    /\ req.endpoint = "/translate"
    /\ req.ctype = "json" /\ req.json = JObj([file_path |-> GoodPath])
    /\ KeyFails
    /\ resp.code = 403

-----------------------------------------------------------------------------
(* C5 *)

\* the request presented the key configured for its endpoint
AuthPassed == HeadersRead /\ Truthy(ApiKey(req)) /\ ApiKey(req) = apiKeys[req.endpoint]

\* the body is a JSON object or form data
ObjectOrForm(r) == r.ctype = "form" \/ r.json.t = "obj"

\* C5: a correctly authenticated request whose body (a JSON object or form
\* data) omits a required field, the empty JSON object included, is answered
\* 400 with a message that mentions the missing fields, and no call to the blob
\* store or the LLM provider is made.
C5_OmittedFieldIs400 ==
    (pc = "done" /\ AuthPassed /\ ObjectOrForm(req) /\ Omitted(req) # {}) =>
        /\ resp.code = 400
        /\ \A f \in Omitted(req) : Contains(resp.message, f)
        /\ ~StoreCalled /\ ~LlmCalled

-----------------------------------------------------------------------------
(* C6 *)

\* the blob client the code makes of the request's reference
Referred == BlobClientFor(FilePath(req))

\* the request ended at the store call named by stage: the store was reached,
\* it accepts the name the reference resolves to, and has no blob under it
EndedNotFoundAt(stage) ==
    /\ pc = "done"
    /\ LastStage = stage
    /\ exception.type # "ServiceRequestError"
    /\ ValidContainerName(Referred.container)
    /\ ~Lookup(Referred).exists

\* C6: an authenticated, well-formed request whose reference points at an
\* object the blob store does not have when the content is fetched is answered
\* 404 with status "error" and error "file_not_found", and neither extraction
\* nor an LLM call takes place.
C6_MissingBlobIs404 ==
    EndedNotFoundAt("store.download") =>
        /\ resp.code = 404
        /\ resp.status = "error"
        /\ resp.error = "file_not_found"
        /\ ~Stage("extract")
        /\ ~LlmCalled

\* a request for demo/missing.txt passed both decorators and was answered 404
C6_Witness ==
    /\ pc = "done"
    /\ trace = <<"auth", "validate", "handler", "store.download">>
    /\ FilePath(req) = "demo/missing.txt"
    /\ resp.code = 404

-----------------------------------------------------------------------------
(* C7 *)

\* C7: a not-found answer of the blob store to any call the request makes, the
\* call after the content was fetched included (the blob deleted in between),
\* is answered 404 "file_not_found".
C7_NotFoundOnAnyCallIs404 ==
    (EndedNotFoundAt("store.download") \/ EndedNotFoundAt("store.properties")) =>
        (resp.code = 404 /\ resp.error = "file_not_found")

-----------------------------------------------------------------------------
(* C8 *)

\* the request ended in text extraction
ExtractEnded == pc = "done" /\ LastStage = "extract"

\* the fetched blob goes to the PDF extraction
TreatedAsPdf ==
    determine_file_type(file_properties.content_type, file_properties.name,
                        file_content) = "pdf"

\* every page of the fetched PDF gives blank text
NoPageText == \A i \in 1..Len(file_content.pdf.pages) : IsBlank(file_content.pdf.pages[i])

\* C8: an extraction failure is answered 400 with status "error" and error
\* "processing_error" and no LLM call is made; a corrupt PDF, an encrypted PDF
\* and a PDF without extractable text are such failures, and for an encrypted
\* PDF the message says that the document is encrypted.
C8_ExtractionFailureIs400 ==
    /\ ExtractEnded =>
          /\ resp.code = 400
          /\ resp.status = "error"
          /\ resp.error = "processing_error"
          /\ ~LlmCalled
    /\ (Stage("extract") /\ TreatedAsPdf
          /\ (file_content.pdf.kind \in {"corrupt", "encrypted"} \/ NoPageText))
       => ExtractEnded
    /\ (Stage("extract") /\ TreatedAsPdf /\ file_content.pdf.kind = "encrypted")
       => Contains(resp.message, "encrypted")

\* an encrypted PDF was fetched and the request answered 400 with a message
\* that says so
C8_Witness ==
    /\ ExtractEnded
    /\ file_content.pdf.kind = "encrypted"
    /\ resp.code = 400
    /\ Contains(resp.message, "encrypted")

-----------------------------------------------------------------------------
(* C9 *)

\* the four operations that read the reply as JSON
JsonTasks == {"/sentiment", "/extract-keywords", "/structure-data", "/detect-topics"}

\* the provider failed, replied nothing, or replied to a JSON operation with
\* what is no JSON or no JSON object
DerivationFailed ==
    \/ llm_reply.raised
    \/ llm_reply.content \in {None, ""}
    \/ /\ req.endpoint \in JsonTasks
       /\ \/ ~json_loads(llm_reply.content).ok
          \/ json_loads(llm_reply.content).value.t # "obj"

\* C9: a failed derivation (provider error, empty reply, or for the four JSON
\* operations a reply that is not valid JSON or not a JSON object) is answered
\* 500 with the error code of the task and without data.
C9_FailedDerivationIs500 ==
    (pc = "done" /\ LlmCalled /\ DerivationFailed) =>
        /\ resp.code = 500
        /\ resp.status = "error"
        /\ resp.error = FailedCode(req.endpoint)
        /\ resp.data = NoData

-----------------------------------------------------------------------------
(* C10 *)

\* the request ended with an exception that is no not-found, validation or
\* processing error
OtherError ==
    /\ pc = "done"
    /\ exception # NoExc
    /\ ~IsInstance(exception, "FileNotFoundError")
    /\ ~IsInstance(exception, "ValueError")
    /\ exception.type # "BadRequest"

\* C10: an error that is no not-found, validation or processing error, raised
\* in the handler body or in a decorator, is answered 500 with error
\* "internal_error" and the fixed message "An unexpected error occurred", and
\* the response never carries the text of the exception.
C10_OtherErrorIsInternalError ==
    OtherError =>
        /\ resp.code = 500
        /\ resp.error = "internal_error"
        /\ resp.message = "An unexpected error occurred"
        /\ ~Contains(resp.message, exception.msg)

-----------------------------------------------------------------------------
(* C11 *)

\* the response is JSON with an envelope field (the pages the framework makes
\* of an exception no handler caught are not)
JsonResponse == pc = "done" /\ (resp.status # None \/ resp.error # None)

\* C11: every JSON response of a task endpoint has the uniform envelope: a
\* success has status "success", a data object and a message; every failure,
\* those of authentication and validation included, has status "error", an
\* error code and a message.
C11_UniformEnvelope ==
    JsonResponse =>
        IF resp.code = 200
        THEN resp.status = "success" /\ resp.data # NoData /\ resp.message # None
        ELSE resp.status = "error" /\ resp.error # None /\ resp.message # None

-----------------------------------------------------------------------------
(* C12 *)

\* every stage ran, and the derivation reported success on a reply that is no
\* failed one
AllSucceeded ==
    /\ trace = <<"auth", "validate", "handler", "store.download", "store.properties",
                 "extract", "llm">>
    /\ Derivation(req.endpoint, text_content, TargetLanguage(req), llm_reply).success
    /\ ~DerivationFailed

-----------------------------------------------------------------------------
(* C13 *)

\* C13: the text handed to a derivation is never empty or white space only; an
\* extraction that gives such a text ends the request before any LLM call.
C13_NoBlankTextDerived ==
    /\ LlmCalled => ~IsBlank(text_content)
    /\ pc = "derive" => ~IsBlank(text_content)

-----------------------------------------------------------------------------
(* C14 *)

\* the handler read file_path from a JSON object
FilePathRead == Stage("handler") /\ req.ctype = "json" /\ req.json.t = "obj"

\* references with an empty container or blob name, or with a container only
EmptyNameReferences == {"demo/", "/report.pdf", Host \o "/report.pdf"}

-----------------------------------------------------------------------------
(* C15 *)

\* C15: for every container c and blob name n, the URL https://host/c/n and the
\* shorthand c/n both resolve to container c and name n, and the download step
\* and the properties step resolve each of them to the same pair.
C15_SameResolution ==
    lib_call.fn = "resolve" =>
        /\ lib_result.url_download = Client(lib_call.container, lib_call.name)
        /\ lib_result.path_download = Client(lib_call.container, lib_call.name)
        /\ lib_result.url_properties = lib_result.url_download
        /\ lib_result.path_properties = lib_result.path_download

-----------------------------------------------------------------------------
(* C16 *)

\* the text extensions of the precedence
TextExtensions == {".txt", ".md", ".csv", ".json", ".xml"}

\* the rules of the precedence, in order: <<the rule applies, the kind it gives>>;
\* content type and filename are matched without regard to case
C16_Rules ==
    LET t == lib_call.content_type
        f == lib_call.filename
        c == lib_call.content
    IN  << <<t # None /\ Contains(Lower(t), "pdf"), "pdf">>,
           <<t # None /\ Contains(Lower(t), "text"), "text">>,
           <<f # None /\ EndsWith(Lower(f), ".pdf"), "pdf">>,
           <<f # None /\ \E e \in TextExtensions : EndsWith(Lower(f), e), "text">>,
           <<Len(c) >= 4 /\ SubSeq(c, 1, 4) = <<37, 80, 68, 70>>, "pdf">>,
           <<TRUE, "text">> >>

\* the first rule that applies
C16_FirstMatch == CHOOSE i \in 1..6 : C16_Rules[i][1] /\ \A j \in 1..(i - 1) : ~C16_Rules[j][1]

\* C16: detection returns the kind of the first rule that applies, in the order
\* content type pdf, content type text, filename .pdf, filename of a text
\* extension, PDF signature, text; content that starts with the signature is
\* pdf when content type and filename are absent; the result is pdf or text.
C16_DetectionPrecedence ==
    lib_call.fn = "detect" =>
        /\ lib_result = C16_Rules[C16_FirstMatch][2]
        /\ lib_result \in {"pdf", "text"}
        /\ (/\ lib_call.content_type = None
            /\ lib_call.filename = None
            /\ Len(lib_call.content) >= 4
            /\ SubSeq(lib_call.content, 1, 4) = <<37, 80, 68, 70>>) => lib_result = "pdf"

\* a text/plain blob named a.pdf whose content starts with the signature was
\* detected as text
C16_Witness ==
    /\ lib_call.fn = "detect"
    /\ lib_call.content_type = "text/plain"
    /\ lib_call.filename = "a.pdf"
    /\ lib_call.content = <<37, 80, 68, 70>>
    /\ lib_result = "text"

\* content with the signature and neither content type nor filename was
\* detected as pdf
C16_WitnessSignature ==
    /\ lib_call.fn = "detect"
    /\ lib_call.content_type = None
    /\ lib_call.filename = None
    /\ lib_call.content = <<37, 80, 68, 70, 45, 49>>
    /\ lib_result = "pdf"

-----------------------------------------------------------------------------
(* C17 *)

\* the order the claim states
C17_Order == <<"utf-8", "utf-16", "latin-1", "cp1252">>

\* the positions of the order whose encoding decodes the bytes of the call
C17_Decoding == {i \in 1..Len(C17_Order) : Decode(lib_call.bytes, C17_Order[i]).ok}

\* the first of them
C17_First == CHOOSE i \in C17_Decoding : \A j \in C17_Decoding : i <= j

\* C17: the text path tries UTF-8, UTF-16, Latin-1, Windows-1252 in this order
\* and returns the decoding of the first that decodes the bytes; the encodings
\* tried are exactly those up to that one.
C17_FirstDecodingInOrder ==
    lib_call.fn = "decode" =>
        /\ C17_Decoding # {}
        /\ lib_result.extracted = Extracted(Decode(lib_call.bytes, C17_Order[C17_First]).cp)
        /\ lib_result.tried = SubSeq(C17_Order, 1, C17_First)

\* bytes that are no UTF-8 and no UTF-16 were decoded as Latin-1, the third tried
C17_Witness ==
    /\ lib_call.fn = "decode"
    /\ lib_call.bytes = <<195, 65, 255>>
    /\ lib_result.tried = <<"utf-8", "utf-16", "latin-1">>
    /\ lib_result.extracted = Extracted(<<195, 65, 255>>)

\* bytes that are no UTF-8 were decoded as UTF-16, and nothing was tried after it
C17_WitnessUtf16 ==
    /\ lib_call.fn = "decode"
    /\ lib_call.bytes = <<195, 65>>
    /\ lib_result.tried = <<"utf-8", "utf-16">>
    /\ lib_result.extracted = Extracted(<<16835>>)

-----------------------------------------------------------------------------
(* C18 *)

\* C18: the text path returns s for the UTF-8 encoding of every string s.
C18_Utf8RoundTrip ==
    lib_call.fn = "roundtrip" => lib_result = Extracted(lib_call.string)

\* a string with a character of three bytes and one of four came back unchanged
C18_Witness ==
    /\ lib_call.fn = "roundtrip"
    /\ lib_call.string = <<8364, 128512>>
    /\ lib_result = Extracted(<<8364, 128512>>)

-----------------------------------------------------------------------------
(* C19 *)

\* C19: validate_text_length returns the text unchanged and truncated = false
\* when the text is no longer than max, and exactly the first max characters
\* and truncated = true when it is longer.
C19_LimitExact ==
    lib_call.fn = "limit" =>
        IF Len(lib_call.text) <= lib_call.max
        THEN lib_result.once = <<lib_call.text, FALSE>>
        ELSE /\ lib_result.once[2] = TRUE
             /\ Len(lib_result.once[1]) = lib_call.max
             /\ \A i \in 1..lib_call.max : lib_result.once[1][i] = lib_call.text[i]

\* a text of three characters was cut to two
C19_Witness ==
    /\ lib_call.fn = "limit"
    /\ Len(lib_call.text) = 3
    /\ lib_call.max = 2
    /\ lib_result.once = <<SubSeq(lib_call.text, 1, 2), TRUE>>

\* a text as long as max was returned unchanged
C19_WitnessAtLimit ==
    /\ lib_call.fn = "limit"
    /\ Len(lib_call.text) = 2
    /\ lib_call.max = 2
    /\ lib_result.once = <<lib_call.text, FALSE>>

-----------------------------------------------------------------------------
(* C20 *)

\* C20: validate_text_length applied to the text a first application returned,
\* with the same max, yields the same result as the first application.
C20_Idempotent ==
    lib_call.fn = "limit" => lib_result.twice = lib_result.once

\* C20, amended: the second application returns the text of the first
\* unchanged, with truncated = false.
C20_SecondKeepsText ==
    lib_call.fn = "limit" =>
        /\ lib_result.twice[1] = lib_result.once[1]
        /\ lib_result.twice[2] = FALSE

\* the first application cut the text, the second returned the cut text
C20_Witness ==
    /\ lib_call.fn = "limit"
    /\ Len(lib_call.text) > lib_call.max
    /\ lib_result.once[2] = TRUE
    /\ lib_result.twice = <<lib_result.once[1], FALSE>>

-----------------------------------------------------------------------------
(* C21 *)

\* the character budget of a task
C21_Budget == IF lib_call.endpoint = "/translate" THEN 50000 ELSE 100000

\* C21: the text given to the LLM has at most 50,000 characters on /translate
\* and at most 100,000 on the five other endpoints, and was_truncated is true
\* exactly when the extracted text was longer than that.
C21_WithinBudget ==
    lib_call.fn = "task_limit" =>
        /\ lib_result.llm_length <= C21_Budget
        /\ lib_result.was_truncated <=> (lib_call.length > C21_Budget)
        /\ ~lib_result.was_truncated => lib_result.llm_length = lib_call.length

\* a text of 50,001 characters was cut to 50,000 on /translate
C21_Witness ==
    /\ lib_call.fn = "task_limit"
    /\ lib_call.endpoint = "/translate"
    /\ lib_call.length = 50001
    /\ lib_result = [llm_length |-> 50000, was_truncated |-> TRUE]

\* a text of 100,000 characters went to the summarizer uncut
C21_WitnessUncut ==
    /\ lib_call.fn = "task_limit"
    /\ lib_call.endpoint = "/summarize"
    /\ lib_call.length = 100000
    /\ lib_result = [llm_length |-> 100000, was_truncated |-> FALSE]

-----------------------------------------------------------------------------
(* C22 *)

\* page texts joined by one newline
RECURSIVE C22_Join(_)
C22_Join(texts) ==
    IF Len(texts) = 0 THEN <<>>
    ELSE IF Len(texts) = 1 THEN texts[1]
    ELSE texts[1] \o <<10>> \o C22_Join(Tail(texts))

\* a page text that is not blank after trimming
C22_NonBlank(page_text) == \E i \in 1..Len(page_text) : ~IsSpace(page_text[i])

\* the non-blank page texts of the document of the call, in document order, joined
C22_Joined == C22_Join(SelectSeq(lib_call.pdf.pages, C22_NonBlank))

\* C22: for an encrypted document the PDF path fails before text extraction is
\* called on any page; for a document that is not encrypted it returns the page
\* texts that are non-blank after trimming, in document order, joined by one
\* newline, and fails with the no-extractable-text error, whose message holds
\* the page count, exactly when that joined text is empty or blank.
C22_PdfPath ==
    (lib_call.fn = "pdf" /\ lib_call.pdf # NotAPdf) =>
        IF lib_call.pdf.kind = "encrypted"
        THEN /\ ~lib_result.extracted.ok
             /\ lib_result.pages_read = 0
             /\ Contains(lib_result.extracted.exc.msg, "PDF is encrypted")
        ELSE IF \A i \in 1..Len(C22_Joined) : IsSpace(C22_Joined[i])
        THEN /\ ~lib_result.extracted.ok
             /\ lib_result.extracted.exc.type = "ValueError"
             /\ Contains(lib_result.extracted.exc.msg,
                         "No extractable text found in PDF ("
                            \o ToStr(Len(lib_call.pdf.pages)) \o " pages)")
        ELSE /\ lib_result.extracted = Extracted(C22_Joined)
             /\ lib_result.pages_read = Len(lib_call.pdf.pages)

\* two pages with text came back joined by a newline
C22_Witness ==
    /\ lib_call.fn = "pdf"
    /\ lib_call.pdf = Pdf("plain", <<TxtGreat, TxtOk>>)
    /\ lib_result.extracted = Extracted(TxtGreat \o <<10>> \o TxtOk)

\* an encrypted document failed with no page read
C22_WitnessEncrypted ==
    /\ lib_call.fn = "pdf"
    /\ lib_call.pdf = Pdf("encrypted", <<TxtGreat, TxtOk>>)
    /\ ~lib_result.extracted.ok
    /\ lib_result.pages_read = 0

\* a document of two blank pages failed with the page count in the message
C22_WitnessNoText ==
    /\ lib_call.fn = "pdf"
    /\ lib_call.pdf = Pdf("plain", <<TxtBlank, <<>> >>)
    /\ ~lib_result.extracted.ok
    /\ Contains(lib_result.extracted.exc.msg, "(2 pages)")

-----------------------------------------------------------------------------
(* C23 *)

\* how many times a stage is in the trace of the request
Times(stage) == Cardinality({i \in 1..Len(trace) : trace[i] = stage})

\* the handler calls the download, the properties lookup and the derivation at
\* most once each, and a failure of one of them ends the request
OneCallEach ==
    /\ Times("store.download") <= 1
    /\ Times("store.properties") <= 1
    /\ Times("llm") <= 1
    /\ (exception # NoExc /\ LastStage \in {"store.download", "store.properties"}) =>
          (pc = "done" /\ resp.code # 200)

-----------------------------------------------------------------------------
(* C24 *)

\* the response worker w's request gets when it is served alone and the blob
\* store and the LLM provider answer it what they answered w
ServedAlone(w) ==
    LET r == w.req
        out == extract_text_from_content(w.download.value[1],
                                         w.properties.value[1].content_type,
                                         w.properties.value[1].name)
        limited == validate_text_length(out.text, MaxLength(r.endpoint))
    IN  IF Checked(r) # NoResponse THEN Checked(r)
        ELSE IF ~w.download.ok THEN HandleException(w.download.exc)
        ELSE IF ~w.properties.ok THEN HandleException(w.properties.exc)
        ELSE IF ~out.ok THEN HandleException(out.exc)
        ELSE Derived(r, w.properties.value[1], limited[1], limited[2], w.reply)

\* C24: under every interleaving of the steps of concurrently served requests,
\* the response of each request is the response it gets served alone against
\* the same answers of the blob store and of the LLM provider.
C24_ConcurrentAsAlone ==
    \A i \in RequestIds :
        workers[i].pc = "done" => workers[i].resp = ServedAlone(workers[i])

\* a summary and a translation were served at the same time, the blob was
\* overwritten in between, and the two downloads returned different versions
C24_Witness ==
    /\ workers[1].pc = "done" /\ workers[2].pc = "done"
    /\ workers[1].req.endpoint = "/summarize"
    /\ workers[2].req.endpoint = "/translate"
    /\ workers[1].resp.code = 200 /\ workers[2].resp.code = 200
    /\ workers[1].download.ok /\ workers[2].download.ok
    /\ workers[1].download # workers[2].download

-----------------------------------------------------------------------------
(* C25 *)

\* a /summarize request was answered 200
SummarizeSucceeded == pc = "done" /\ req.endpoint = "/summarize" /\ resp.code = 200

\* the text extraction gave this request, before the length limit
ExtractedText ==
    extract_text_from_content(file_content, file_properties.content_type,
                              file_properties.name).text

\* C25: on a successful /summarize response original_length is the number of
\* characters of the text handed to the summarizer, summary_length the number
\* of characters of summary, and was_truncated is false when the extracted
\* text is within 100,000 characters.
C25_SummaryCounts ==
    SummarizeSucceeded =>
        /\ resp.data[1].original_length = Len(text_content)
        /\ resp.data[1].summary_length = Len(resp.data[1].summary)
        /\ Len(ExtractedText) <= 100000 =>
              (resp.data[1].was_truncated = FALSE /\ text_content = ExtractedText)

\* a review of six characters was summarized in 23 characters
C25_Witness ==
    /\ SummarizeSucceeded
    /\ text_content = TxtGreat
    /\ llm_reply = Reply(FALSE, ReplyText)
    /\ resp.data[1].original_length = 6
    /\ resp.data[1].summary = "The review is positive."
    /\ resp.data[1].summary_length = 23
    /\ resp.data[1].was_truncated = FALSE

-----------------------------------------------------------------------------
(* C26 *)

\* a /detect-topics request was answered 200
TopicsSucceeded == pc = "done" /\ req.endpoint = "/detect-topics" /\ resp.code = 200

\* C26: on a successful /detect-topics response the topics list has at most 8
\* entries, each with a name, a description and a confidence between 0.0 and
\* 1.0 (numbers are in tenths), whatever the provider replied.
C26_TopicsCapped ==
    TopicsSucceeded =>
        /\ resp.data[1].topics.t = "list"
        /\ Len(resp.data[1].topics.l) <= 8
        /\ \A i \in 1..Len(resp.data[1].topics.l) :
              LET topic == resp.data[1].topics.l[i] IN
              /\ {"name", "description", "confidence"} \subseteq DOMAIN topic
              /\ topic.confidence \in 0..10

-----------------------------------------------------------------------------
(* C27 *)

\* the properties the handler got are those of a version of the blob that has
\* the bytes the handler downloaded
SameVersion ==
    \E v \in Versions :
        /\ v.content = file_content
        /\ v.ver = file_properties.last_modified
        /\ v.content_type = file_properties.content_type
        /\ Len(v.content.bytes) = file_properties.size

\* C27: in every successful response the echoed file_properties, and the
\* content type used to detect the file kind, are those of the version of the
\* blob whose bytes were downloaded, also when another party overwrites the
\* blob between the download and the properties lookup.
C27_PropertiesOfDownloadedVersion ==
    (pc = "done" /\ resp.code = 200) =>
        /\ SameVersion
        /\ resp.data[1].file_properties = file_properties

-----------------------------------------------------------------------------
(* C28 *)

\* what extract_text_from_content makes of the arguments of a detection call
C28_Extraction ==
    extract_text_from_content(Content(lib_call.content, NotAPdf), lib_call.content_type,
                              lib_call.filename)

\* C28: the text path returns a string for every byte sequence: the
\* undecodable-text failure is never produced, Windows-1252 is never tried, and
\* extract_text_from_content never gets to its unsupported-file-type branch.
C28_TextPathTotal ==
    /\ lib_call.fn = "decode" =>
          /\ lib_result.extracted.ok
          /\ \A i \in 1..Len(lib_result.tried) : lib_result.tried[i] # "cp1252"
    /\ lib_call.fn = "detect" =>
          /\ lib_result \in {"pdf", "txt", "text"}
          /\ ~C28_Extraction.ok => ~StartsWith(C28_Extraction.exc.msg, "Unsupported file type")
          /\ lib_result # "pdf" => C28_Extraction.ok

\* a byte that is neither UTF-8 nor UTF-16 came back as the Latin-1 character
C28_Witness ==
    /\ lib_call.fn = "decode"
    /\ lib_call.bytes = <<255>>
    /\ lib_result.tried = <<"utf-8", "utf-16", "latin-1">>
    /\ lib_result.extracted = Extracted(<<255>>)

-----------------------------------------------------------------------------
(* C29 *)

\* the URL of the call with the scheme http
PlainHttpUrl == "http://acct.blob.core.windows.net/" \o lib_call.path

\* a reference that passes validate_file_path as a URL is resolved as a URL:
\* neither its scheme nor its host becomes the container or the blob name
ResolvedAsUrl(x) ==
    (StartsWith(x, "http") /\ validate_file_path(x) /\ BlobClientFor(x).ok) =>
        /\ BlobClientFor(x).container \notin {"http:", "https:"}
        /\ ~Contains(BlobClientFor(x).blob, "blob.core.windows.net")
        /\ ~Contains(BlobClientFor(x).container, "blob.core.windows.net")

\* C29: validate_file_path rejects no reference the resolution accepts; the URL
\* https://host/c/n is accepted whenever the shorthand c/n is; a reference
\* accepted as a URL is resolved as a URL, its scheme and host never being the
\* container or the blob name.
C29_CheckAgreesWithResolution ==
    lib_call.fn = "resolve" =>
        /\ \A x \in {lib_call.url, lib_call.path} :
              BlobClientFor(x).ok => validate_file_path(x)
        /\ validate_file_path(lib_call.path) => validate_file_path(lib_call.url)
        /\ ResolvedAsUrl(lib_call.url)
        /\ ResolvedAsUrl(PlainHttpUrl)

-----------------------------------------------------------------------------
(* C30 *)

\* the request with the fields of its form sent as a JSON object
AsJson(r) == [r EXCEPT !.ctype = "json", !.json = JObj(r.form), !.form = EmptyMap]

\* a request with form data passed both decorators and its handler has ended
FormHandled == pc = "done" /\ req.ctype = "form" /\ Stage("handler")

\* C30: a request with the right key and the required fields as form data,
\* which the validator lets through, goes through the pipeline as the same
\* request with a JSON body does: its handler gets to the blob store when that
\* of the JSON request does, and it does not end in 500 internal_error at the
\* start of the handler.
C30_FormAsJson ==
    FormHandled =>
        /\ Checked(AsJson(req)) = NoResponse => StoreCalled
        /\ ~(LastStage = "handler" /\ resp.code = 500 /\ resp.error = "internal_error")

====
